---------------------------- MODULE Spec2Model ----------------------------
(***************************************************************************)
(* Model of the sonja-games backend: the Wordle letter-feedback engine,    *)
(* the Wordle and Crossword session state machines and the get-or-create   *)
(* of the daily puzzles, translated from src/backend/app/games.            *)
(*                                                                         *)
(* A word is a sequence of one-character strings.  None stands for         *)
(* Python's None.                                                          *)
(***************************************************************************)
EXTENDS Integers, Sequences, FiniteSets, TLC

VARIABLES
    evalGuess,        \* check_guess: the guess argument as passed in
    evalAnswer,       \* check_guess: the answer argument as passed in
    evalResult,       \* check_guess: the returned list, None before the call
    wordleChallenges, \* table wordle_daily_challenges, row id = index
    wordleSessions,   \* table wordle_game_sessions, row id = index
    wordleRet,        \* outcome of the last Wordle service call
    cwPuzzles,        \* table crossword_daily_puzzles, row id = index
    cwSessions,       \* table crossword_game_sessions, row id = index
    cwRet,            \* outcome of the last Crossword service call
    procs             \* requests running get-or-create concurrently

evalVars == <<evalGuess, evalAnswer, evalResult>>
wordleVars == <<wordleChallenges, wordleSessions, wordleRet>>
cwVars == <<cwPuzzles, cwSessions, cwRet>>

vars == <<evalVars, wordleVars, cwVars, procs>>

None == "None"

(***************************************************************************)
(* Characters and case conversion (str.lower / str.upper).                 *)
(***************************************************************************)
LowerAlphabet == <<"a", "b", "c", "d", "e">>
UpperAlphabet == <<"A", "B", "C", "D", "E">>

\* Number of distinct letters the enumerated words are written in.
NumLetters == 2

Letters == {LowerAlphabet[i] : i \in 1..NumLetters}

LowerChar(c) ==
    IF \E i \in 1..Len(UpperAlphabet) : UpperAlphabet[i] = c
    THEN LowerAlphabet[CHOOSE i \in 1..Len(UpperAlphabet) : UpperAlphabet[i] = c]
    ELSE c

UpperChar(c) ==
    IF \E i \in 1..Len(LowerAlphabet) : LowerAlphabet[i] = c
    THEN UpperAlphabet[CHOOSE i \in 1..Len(LowerAlphabet) : LowerAlphabet[i] = c]
    ELSE c

Lower(w) == [i \in 1..Len(w) |-> LowerChar(w[i])]

Upper(w) == [i \in 1..Len(w) |-> UpperChar(w[i])]

\* How a caller may have typed a word: as is, in capitals, or capitalised.
\* The (guess, answer) casings the feedback engine is called with.
TypedPairs == {<<"lower", "lower">>, <<"upper", "lower">>, <<"capitalized", "upper">>}

Typed(w, mask) ==
    CASE mask = "lower" -> w
      [] mask = "upper" -> Upper(w)
      [] OTHER -> [i \in 1..Len(w) |-> IF i = 1 THEN UpperChar(w[i]) ELSE w[i]]

(***************************************************************************)
(* WordService.check_guess (word_service.py:74-125).                       *)
(***************************************************************************)
WordLen == 5

CORRECT == "correct"
PRESENT == "present"
ABSENT == "absent"

LetterResult(c, s) == [letter |-> c, status |-> s]

\* An entry of result that no pass has filled yet (result = [None] * 5).
Unmarked == [letter |-> None, status |-> None]

\* list.index: the first position holding x
IndexOf(lst, x) == CHOOSE i \in 1..Len(lst) : lst[i] = x /\ \A j \in 1..(i - 1) : lst[j] # x

Contains(lst, x) == \E i \in 1..Len(lst) : lst[i] = x

\* FirstPass that marks the exact matches without using up their answer letter.
FirstPassKeep(guess, answer) ==
    [result |-> [i \in 1..WordLen |->
                    IF guess[i] = answer[i] THEN LetterResult(guess[i], CORRECT) ELSE Unmarked],
     answer_letters |-> answer]

\* First pass: exact matches are marked and their answer letter is used up.
FirstPass(guess, answer) ==
    [result |-> [i \in 1..WordLen |->
                    IF guess[i] = answer[i] THEN LetterResult(guess[i], CORRECT) ELSE Unmarked],
     answer_letters |-> [i \in 1..WordLen |->
                    IF guess[i] = answer[i] THEN None ELSE answer[i]]]

\* SecondPassStep that marks Present without removing the matched occurrence.
SecondPassStepKeep(guess, st, i) ==
    IF st.result[i] # Unmarked
    THEN st
    ELSE IF Contains(st.answer_letters, guess[i])
         THEN [result |-> [st.result EXCEPT ![i] = LetterResult(guess[i], PRESENT)],
               answer_letters |-> st.answer_letters]
         ELSE [result |-> [st.result EXCEPT ![i] = LetterResult(guess[i], ABSENT)],
               answer_letters |-> st.answer_letters]

\* One iteration of the second loop, at position i.
SecondPassStep(guess, st, i) ==
    IF st.result[i] # Unmarked
    THEN st
    ELSE IF Contains(st.answer_letters, guess[i])
         THEN [result |-> [st.result EXCEPT ![i] = LetterResult(guess[i], PRESENT)],
               answer_letters |-> [st.answer_letters EXCEPT
                                      ![IndexOf(st.answer_letters, guess[i])] = None]]
         ELSE [result |-> [st.result EXCEPT ![i] = LetterResult(guess[i], ABSENT)],
               answer_letters |-> st.answer_letters]

RECURSIVE SecondPass(_, _, _)
SecondPass(guess, st, i) ==
    IF i > WordLen THEN st
    ELSE SecondPass(guess, SecondPassStep(guess, st, i), i + 1)

\* check_guess that lowercases the guess but not the answer.
check_guess_answer_as_is(guess, answer) ==
    SecondPass(Lower(guess), FirstPass(Lower(guess), answer), 1).result

check_guess(guess, answer) ==
    SecondPass(Lower(guess), FirstPass(Lower(guess), Lower(answer)), 1).result

(***************************************************************************)
(* Wordle data: the calendar, the word lists of words.json and the daily   *)
(* word (word_service.py:20-71).                                           *)
(***************************************************************************)
\* date.toordinal() of 2024-01-15 and 2024-01-16
Dates == {738900, 738901}

Users == {"u1"}

Added == <<"a", "d", "d", "e", "d">>
Ebbed == <<"e", "b", "b", "e", "d">>

\* data['answers'] and data['valid_guesses'], lowercased on load
Answers == <<Added, Ebbed>>
ValidGuesses == {Added, Ebbed}

\* hashlib.sha256(f"{date.isoformat()}:{secret}").hexdigest()[:8] with the default
\* secret, tabulated for the calendar as the two 16-bit halves <<hi, lo>> of the
\* 32-bit value, for 2024-01-14 .. 2024-01-21 (60a4ca57, 5f20f472, 46eb8091,
\* b4589805, 9e2ad49d, 2dffa4dd, a4dabe01, 24daa5f0)
Sha256Prefix(d) ==
    CASE d = 738899 -> <<24740, 51799>>
      [] d = 738900 -> <<24352, 62578>>
      [] d = 738901 -> <<18155, 32913>>
      [] d = 738902 -> <<46168, 38917>>
      [] d = 738904 -> <<11775, 42205>>
      [] d = 738905 -> <<42202, 48641>>
      [] d = 738906 -> <<9434, 42480>>
      [] OTHER -> <<40490, 54429>>

\* int(prefix, 16) % n, computed on the halves: (hi * 2^16 + lo) % n
HashMod(prefix, n) == (((prefix[1] % n) * (65536 % n)) + (prefix[2] % n)) % n

\* A Python process: hash_seed is the seed that salts the built-in hash() of
\* its strings (chosen at interpreter start), service its WordService
\* singleton, empty until get_word_service() builds it.
NoService == [answers |-> <<>>, valid_guesses |-> {}]

\* WordService(): __init__ and _load_words
WordService == [answers |-> Answers, valid_guesses |-> ValidGuesses]

Process(seed, service) == [hash_seed |-> seed, service |-> service]

\* get_daily_word that indexes by the process's built-in hash of the key.
get_daily_word_builtin_hash(process, d) ==
    process.service.answers[
        ((HashMod(Sha256Prefix(d), Len(process.service.answers)) + process.hash_seed)
            % Len(process.service.answers)) + 1]

\* WordService.get_daily_word run in a process: self._answers[index]
get_daily_word_in(process, d) ==
    process.service.answers[HashMod(Sha256Prefix(d), Len(process.service.answers)) + 1]

\* The daily word as the server process computes it.
get_daily_word(d) == get_daily_word_in(Process(0, WordService), d)

\* is_valid_word that checks the shape of the word but not the vocabulary.
is_valid_word_any(word) == Len(word) = WordLen

is_valid_word(word) == Lower(word) \in ValidGuesses

(***************************************************************************)
(* Nullable columns and optional results.                                  *)
(***************************************************************************)
Null == [null |-> TRUE, value |-> <<>>]
Json(v) == [null |-> FALSE, value |-> v]

\* x or []
OrEmpty(x) == IF x.null THEN <<>> ELSE x.value

\* datetime.utcnow(): the value is stored and only ever tested against None
UtcNow == "utcnow"

(***************************************************************************)
(* Wordle service (wordle/service.py).                                     *)
(***************************************************************************)
\* Number of game sessions the model lets the users start.
MaxSessions == 1

MaxAttempts == 6

SessionNotFound == "Game session not found"
AlreadyCompleted == "Game session already completed"
InvalidWord == "Invalid word"
ChallengeNotFound == "Daily challenge not found"

NoRet == [op |-> "none", session |-> 0, error |-> None, raw |-> <<>>, guess |-> <<>>,
          result |-> <<>>, is_correct |-> FALSE, attempts_used |-> 0,
          game_over |-> FALSE, won |-> None, answer |-> <<>>]

Raised(name, sid, raw, err) ==
    [NoRet EXCEPT !.op = name, !.session = sid, !.raw = raw, !.error = err]

\* db.query(WordleDailyChallenge).filter(date == target_date).first(): row id or 0
ChallengeForDate(table, d) ==
    IF \E i \in 1..Len(table) : table[i].date = d
    THEN CHOOSE i \in 1..Len(table) : table[i].date = d
    ELSE 0

\* ChallengesAfterGetOrCreate that makes room for the new row.
ChallengesAfterGetOrCreateLatestOnly(table, d) ==
    IF ChallengeForDate(table, d) # 0
    THEN table
    ELSE <<[date |-> d, word |-> get_daily_word(d)]>>

\* get_or_create_daily_challenge run without interruption: the table afterwards
ChallengesAfterGetOrCreate(table, d) ==
    IF ChallengeForDate(table, d) # 0
    THEN table
    ELSE Append(table, [date |-> d, word |-> get_daily_word(d)])

\* guess_results is the nullable JSON column of migration 0eb575580d1a; the
\* constructor does not set it, so a new row holds NULL.
NewSession(u, challenge_id) ==
    [user_id |-> u, daily_challenge_id |-> challenge_id, guesses |-> <<>>,
     guess_results |-> Null, won |-> FALSE, attempts_used |-> 0, completed_at |-> None]

start_daily_challenge(u, d) ==
    /\ wordleChallenges' = ChallengesAfterGetOrCreate(wordleChallenges, d)
    /\ wordleSessions' = Append(wordleSessions,
                                NewSession(u, ChallengeForDate(wordleChallenges', d)))
    /\ wordleRet' = [NoRet EXCEPT !.op = "start_daily_challenge",
                                  !.session = Len(wordleSessions')]

\* IsCompleted that only knows won sessions as completed.
IsCompletedWonOnly(session) == session.completed_at # None /\ session.won

IsCompleted(session) == session.completed_at # None

\* feedback as stored: [{"letter": lr.letter, "status": lr.status.value} ...]
FeedbackDict(feedback) == [i \in 1..Len(feedback) |->
                              [letter |-> feedback[i].letter, status |-> feedback[i].status]]

AllCorrect(feedback) == \A i \in 1..Len(feedback) : feedback[i].status = CORRECT

\* Outcome with the attempt cap tested before the win.
OutcomeCapFirst(is_correct, attempts_used) ==
    IF attempts_used >= MaxAttempts
    THEN [ends |-> TRUE, session_won |-> FALSE, game_over |-> TRUE, won |-> "False"]
    ELSE IF is_correct
         THEN [ends |-> TRUE, session_won |-> TRUE, game_over |-> TRUE, won |-> "True"]
         ELSE [ends |-> FALSE, session_won |-> FALSE, game_over |-> FALSE, won |-> None]

\* Outcome with the attempt cap off by one.
OutcomeCapLate(is_correct, attempts_used) ==
    IF is_correct
    THEN [ends |-> TRUE, session_won |-> TRUE, game_over |-> TRUE, won |-> "True"]
    ELSE IF attempts_used > MaxAttempts
         THEN [ends |-> TRUE, session_won |-> FALSE, game_over |-> TRUE, won |-> "False"]
         ELSE [ends |-> FALSE, session_won |-> FALSE, game_over |-> FALSE, won |-> None]

\* Outcome that reports won = is_correct on every guess.
OutcomeReportsLoss(is_correct, attempts_used) ==
    IF is_correct
    THEN [ends |-> TRUE, session_won |-> TRUE, game_over |-> TRUE, won |-> "True"]
    ELSE IF attempts_used >= MaxAttempts
         THEN [ends |-> TRUE, session_won |-> FALSE, game_over |-> TRUE, won |-> "False"]
         ELSE [ends |-> FALSE, session_won |-> FALSE, game_over |-> FALSE, won |-> "False"]

\* The win/loss decision of submit_guess (service.py:149-163): what becomes of
\* the session record and what the call reports.
Outcome(is_correct, attempts_used) ==
    IF is_correct
    THEN [ends |-> TRUE, session_won |-> TRUE, game_over |-> TRUE, won |-> "True"]
    ELSE IF attempts_used >= MaxAttempts
         THEN [ends |-> TRUE, session_won |-> FALSE, game_over |-> TRUE, won |-> "False"]
         ELSE [ends |-> FALSE, session_won |-> FALSE, game_over |-> FALSE, won |-> None]

\* The commit of a submit_guess that does not store the feedback row.
CommitGuessNoResults(row, session, guess, feedback, out) ==
    [row EXCEPT
        !.guesses = Append(session.guesses, guess),
        !.attempts_used = session.attempts_used + 1,
        !.won = IF out.ends /\ out.session_won # session.won
                THEN out.session_won ELSE row.won,
        !.completed_at = IF out.ends THEN UtcNow ELSE row.completed_at]

\* The assignments of submit_guess (service.py:141-163) and its db.commit():
\* session is the object the request loaded, row the stored row the UPDATE
\* meets.  The UPDATE sets the columns whose value the request changed.
CommitGuess(row, session, guess, feedback, out) ==
    [row EXCEPT
        !.guesses = Append(session.guesses, guess),
        !.attempts_used = session.attempts_used + 1,
        !.guess_results = Json(Append(OrEmpty(session.guess_results),
                                      FeedbackDict(feedback))),
        !.won = IF out.ends /\ out.session_won # session.won
                THEN out.session_won ELSE row.won,
        !.completed_at = IF out.ends THEN UtcNow ELSE row.completed_at]

submit_guess(sid, raw) ==
    IF sid \notin 1..Len(wordleSessions)
    THEN /\ wordleRet' = Raised("submit_guess", sid, raw, SessionNotFound)
         /\ UNCHANGED <<wordleChallenges, wordleSessions>>
    ELSE IF IsCompleted(wordleSessions[sid])
    THEN /\ wordleRet' = Raised("submit_guess", sid, raw, AlreadyCompleted)
         /\ UNCHANGED <<wordleChallenges, wordleSessions>>
    ELSE IF ~is_valid_word(Lower(raw))
    THEN /\ wordleRet' = Raised("submit_guess", sid, raw, InvalidWord)
         /\ UNCHANGED <<wordleChallenges, wordleSessions>>
    ELSE IF wordleSessions[sid].daily_challenge_id \notin 1..Len(wordleChallenges)
    THEN /\ wordleRet' = Raised("submit_guess", sid, raw, ChallengeNotFound)
         /\ UNCHANGED <<wordleChallenges, wordleSessions>>
    ELSE \E session \in {wordleSessions[sid]}, guess \in {Lower(raw)} :
         \E feedback \in {check_guess(guess, wordleChallenges[session.daily_challenge_id].word)} :
         \E out \in {Outcome(AllCorrect(feedback), session.attempts_used + 1)} :
             /\ wordleSessions' = [wordleSessions EXCEPT ![sid] =
                    CommitGuess(session, session, guess, feedback, out)]
             /\ wordleRet' = [op |-> "submit_guess", session |-> sid, error |-> None,
                              raw |-> raw, guess |-> guess, result |-> feedback,
                              is_correct |-> AllCorrect(feedback),
                              attempts_used |-> session.attempts_used + 1,
                              game_over |-> out.game_over, won |-> out.won,
                              answer |-> IF out.game_over
                                         THEN wordleChallenges[session.daily_challenge_id].word
                                         ELSE <<>>]
             /\ UNCHANGED wordleChallenges

\* What callers submit: vocabulary words as typed, a five-letter word outside
\* the vocabulary, a word of the wrong length, a word with a digit.
NotAWord == <<"c", "c", "c", "c", "c">>
TooShort == <<"a", "d", "d">>
NotAlpha == <<"a", "d", "d", "e", "1">>

GuessInputs ==
    {Typed(w, m) : w \in ValidGuesses, m \in {"lower", "upper"}}
        \cup {NotAWord, TooShort, NotAlpha}

WordleIdle ==
    /\ wordleChallenges = <<>>
    /\ wordleSessions = <<>>
    /\ wordleRet = NoRet

EvalIdle ==
    /\ evalGuess = <<>>
    /\ evalAnswer = <<>>
    /\ evalResult = <<>>

\* What check_answers returns; the flag maps are empty before any call.
NoCheck == [correct_across |-> <<>>, correct_down |-> <<>>, all_correct |-> FALSE]

\* What reveal_all returns; empty before any call.
NoCompleteData == [complete_grid |-> <<>>, answers_across |-> <<>>, answers_down |-> <<>>]

\* Outcome of a Crossword service call: the operation, its arguments, the
\* error raised or the value returned.
NoCwRet == [op |-> "none", session |-> 0, error |-> None, value |-> None,
            cell |-> <<>>, letter |-> "", checked |-> NoCheck,
            complete_data |-> NoCompleteData]

CrosswordIdle ==
    /\ cwPuzzles = <<>>
    /\ cwSessions = <<>>
    /\ cwRet = NoCwRet

ProcsIdle == procs = <<>>

Init ==
    /\ WordleIdle
    /\ EvalIdle
    /\ CrosswordIdle
    /\ ProcsIdle

StartDailyChallenge ==
    /\ Len(wordleSessions) < MaxSessions
    /\ \E u \in Users, d \in Dates : start_daily_challenge(u, d)
    /\ UNCHANGED <<evalVars, cwVars, procs>>

SubmitGuess ==
    /\ \E sid \in 1..(MaxSessions + 1), raw \in GuessInputs : submit_guess(sid, raw)
    /\ UNCHANGED <<evalVars, cwVars, procs>>

Next == StartDailyChallenge \/ SubmitGuess

Spec == Init /\ [][Next]_vars

WordOf(session) == wordleChallenges[session.daily_challenge_id].word

SubmitReturned == wordleRet.op = "submit_guess" /\ wordleRet.error = None

\* C4: when the k-th accepted guess of a session (1 <= k <= 6, no earlier guess
\* being the answer) equals the challenge word, the session is Completed with
\* won = true and attempts_used = k, and the call reports the win.
C4_WinningGuessWins ==
    /\ \A sid \in 1..Len(wordleSessions) :
          \E s \in {wordleSessions[sid]} :
          \E k \in {Len(s.guesses)} :
              (/\ k \in 1..MaxAttempts
               /\ s.guesses[k] = WordOf(s)
               /\ \A j \in 1..(k - 1) : s.guesses[j] # WordOf(s))
              => (s.completed_at # None /\ s.won = TRUE /\ s.attempts_used = k)
    /\ (SubmitReturned /\ wordleRet.guess = WordOf(wordleSessions[wordleRet.session]))
          => /\ wordleRet.is_correct /\ wordleRet.game_over /\ wordleRet.won = "True"
             /\ wordleRet.attempts_used = wordleSessions[wordleRet.session].attempts_used

\* The sixth guess is the answer, typed in capitals.
C4_Witness ==
    /\ SubmitReturned
    /\ wordleRet.attempts_used = MaxAttempts
    /\ wordleRet.won = "True"
    /\ wordleRet.raw # wordleRet.guess
    /\ wordleSessions[wordleRet.session].won

\* C5: after exactly 6 accepted guesses, none of them the challenge word, the
\* session is Completed with won = false and attempts_used = 6, and the sixth
\* submit_guess reports game_over = true and won = false.
C5_SixMissesLose ==
    /\ \A sid \in 1..Len(wordleSessions) :
          \E s \in {wordleSessions[sid]} :
              (Len(s.guesses) = MaxAttempts
                 /\ \A j \in 1..MaxAttempts : s.guesses[j] # WordOf(s))
              => (s.completed_at # None /\ s.won = FALSE /\ s.attempts_used = MaxAttempts)
    /\ (SubmitReturned /\ wordleRet.attempts_used = MaxAttempts /\ ~wordleRet.is_correct)
          => (wordleRet.game_over /\ wordleRet.won = "False")

C5_Witness ==
    /\ SubmitReturned
    /\ wordleRet.attempts_used = MaxAttempts
    /\ wordleRet.won = "False"
    /\ wordleSessions[wordleRet.session].completed_at # None
    /\ Len(wordleSessions[wordleRet.session].guesses) = MaxAttempts

\* C6: submit_guess on a Completed session (won or lost) raises the
\* already-completed error and leaves the session record as it was.
C6_CompletedRejectsGuess ==
    [][\A sid \in 1..Len(wordleSessions) :
          wordleSessions[sid].completed_at # None =>
              /\ wordleSessions'[sid] = wordleSessions[sid]
              /\ (wordleRet'.op = "submit_guess" /\ wordleRet'.session = sid)
                    => wordleRet'.error = AlreadyCompleted]_vars

\* A valid guess was refused on a lost session.
C6_Witness ==
    /\ wordleRet.op = "submit_guess"
    /\ wordleRet.error = AlreadyCompleted
    /\ is_valid_word(wordleRet.raw)
    /\ wordleSessions[wordleRet.session].completed_at # None
    /\ ~wordleSessions[wordleRet.session].won

\* C35: in every state reached by start and submit_guess calls made one after
\* the other, every session has attempts_used = len(guesses) =
\* len(guess_results) (no results stored counting as none), within 0..6.
C35_AttemptsCountGuesses ==
    \A sid \in 1..Len(wordleSessions) :
        /\ wordleSessions[sid].attempts_used = Len(wordleSessions[sid].guesses)
        /\ wordleSessions[sid].attempts_used = Len(OrEmpty(wordleSessions[sid].guess_results))
        /\ wordleSessions[sid].attempts_used \in 0..MaxAttempts

\* A session with four scored guesses on which an invalid guess was refused.
C35_Witness ==
    /\ wordleRet.op = "submit_guess"
    /\ wordleRet.error = InvalidWord
    /\ Len(wordleSessions[wordleRet.session].guesses) = 4
    /\ Len(OrEmpty(wordleSessions[wordleRet.session].guess_results)) = 4

\* C36: a session is Completed exactly when it is won or has used 6
\* attempts; a won session's last stored guess is the challenge word; a
\* scored guess that is not the word and leaves attempts_used below 6 leaves
\* the session Active and reports game_over = false and won = None.
C36_CompletedIffWonOrSix ==
    /\ \A sid \in 1..Len(wordleSessions) :
          \E s \in {wordleSessions[sid]} :
              /\ (s.completed_at # None) <=> (s.won \/ s.attempts_used = MaxAttempts)
              /\ s.won => (s.guesses # <<>> /\ s.guesses[Len(s.guesses)] = WordOf(s))
    /\ (SubmitReturned /\ ~wordleRet.is_correct /\ wordleRet.attempts_used < MaxAttempts)
          => /\ ~wordleRet.game_over
             /\ wordleRet.won = None
             /\ wordleSessions[wordleRet.session].completed_at = None
             /\ ~wordleSessions[wordleRet.session].won

\* The fifth guess missed: the game goes on.
C36_Witness ==
    /\ SubmitReturned
    /\ ~wordleRet.is_correct
    /\ wordleRet.attempts_used = MaxAttempts - 1
    /\ ~wordleRet.game_over
    /\ wordleSessions[wordleRet.session].completed_at = None

IsAlpha(c) == Contains(LowerAlphabet, c) \/ Contains(UpperAlphabet, c)

PassesValidation(raw) ==
    /\ Len(raw) = WordLen
    /\ \A i \in 1..Len(raw) : IsAlpha(raw[i])
    /\ Lower(raw) \in ValidGuesses

\* C8: a guess that is not in the vocabulary, has the wrong length or is not
\* alphabetic is rejected with an error ("Invalid word" on an Active session)
\* and no session record changes: no attempt is consumed.
C8_InvalidGuessConsumesNothing ==
    [][(wordleRet'.op = "submit_guess" /\ ~PassesValidation(wordleRet'.raw)) =>
          /\ wordleRet'.error # None
          /\ wordleSessions' = wordleSessions
          /\ (wordleRet'.session \in 1..Len(wordleSessions)
                /\ wordleSessions[wordleRet'.session].completed_at = None)
                => wordleRet'.error = InvalidWord]_vars

\* A five-letter word outside the vocabulary was refused before the last attempt.
C8_Witness ==
    /\ wordleRet.op = "submit_guess"
    /\ wordleRet.error = InvalidWord
    /\ wordleRet.raw = NotAWord
    /\ wordleSessions[wordleRet.session].attempts_used = MaxAttempts - 1
    /\ wordleSessions[wordleRet.session].completed_at = None

(***************************************************************************)
(* The Wordle endpoints (wordle/router.py): requests of authenticated      *)
(* users, served one after the other.  procs holds the request being       *)
(* served: its endpoint and current_user.id.                               *)
(***************************************************************************)
\* date.today() of the server: 2024-01-16
Today == 738901

ApiUsers == {"u1", "other_user_456"}

\* The sessions the users may start.
WordleSessionIds == {1, 2}

Forbidden == "You have already completed today's challenge"

Request(endpoint, u) == <<[endpoint |-> endpoint, current_user |-> u]>>

\* service.can_play_today (service.py:376-408)
can_play_today(u) ==
    \/ ChallengeForDate(wordleChallenges, Today) = 0
    \/ ~\E i \in 1..Len(wordleSessions) :
           /\ wordleSessions[i].user_id = u
           /\ wordleSessions[i].daily_challenge_id = ChallengeForDate(wordleChallenges, Today)
           /\ wordleSessions[i].completed_at # None

\* POST /api/wordle/session (router.py:52-86); target_date is
\* session_data.date or date.today()
start_game_session(u, target_date) ==
    /\ procs' = Request("start_game_session", u)
    /\ IF target_date = Today /\ ~can_play_today(u)
       THEN /\ wordleRet' = Raised("start_game_session", 0, <<>>, Forbidden)
            /\ UNCHANGED <<wordleChallenges, wordleSessions>>
       ELSE start_daily_challenge(u, target_date)

\* POST /api/wordle/session/{session_id}/guess (router.py:136-165): the
\* service is called with the session id of the path; a ValueError becomes
\* status 400.
submit_guess_to_session(u, sid, raw) ==
    /\ procs' = Request("submit_guess_to_session", u)
    /\ submit_guess(sid, raw)

InitApi ==
    /\ EvalIdle
    /\ WordleIdle
    /\ CrosswordIdle
    /\ ProcsIdle

StartGameSession ==
    /\ Len(wordleSessions) < Cardinality(WordleSessionIds)
    /\ \E u \in ApiUsers, d \in Dates : start_game_session(u, d)
    /\ UNCHANGED <<evalVars, cwVars>>

SubmitGuessToSession ==
    /\ \E u \in ApiUsers, sid \in WordleSessionIds, raw \in ValidGuesses :
          submit_guess_to_session(u, sid, raw)
    /\ UNCHANGED <<evalVars, cwVars>>

NextApi == StartGameSession \/ SubmitGuessToSession

SpecApi == InitApi /\ [][NextApi]_vars

\* The Completed sessions of user u on challenge c.
CompletedOn(u, c) ==
    {i \in 1..Len(wordleSessions) :
        /\ wordleSessions[i].user_id = u
        /\ wordleSessions[i].daily_challenge_id = c
        /\ wordleSessions[i].completed_at # None}

\* C13: in every state reachable by start-session and guess requests each
\* user has at most one Completed Wordle session per daily challenge.
C13_OneCompletedSessionPerDay ==
    \A u \in ApiUsers : \A c \in 1..Len(wordleChallenges) :
        Cardinality(CompletedOn(u, c)) <= 1

\* C14: a guess submitted to a session by a user who does not own it is
\* rejected and leaves the session as it was.
C14_OnlyOwnerMutates ==
    [][(/\ procs' # <<>>
        /\ procs'[1].endpoint = "submit_guess_to_session"
        /\ wordleRet'.session \in 1..Len(wordleSessions)
        /\ wordleSessions[wordleRet'.session].user_id # procs'[1].current_user)
       => /\ wordleRet'.error # None
          /\ wordleSessions' = wordleSessions]_vars

(***************************************************************************)
(* Wordle statistics (wordle/service.py:179-260): get_user_stats over      *)
(* tables that hold any short history of sessions, each one played by      *)
(* submit_guess.  ORDER BY date leaves the order of sessions of one date   *)
(* to the database: every such order is a possible result.                 *)
(***************************************************************************)
\* Number of session rows in a history.
MaxStatSessions == 3

\* The day before yesterday .. tomorrow
StatDates == (Today - 2)..(Today + 1)

StatChallenges ==
    [i \in 1..Cardinality(StatDates) |->
        [date |-> Today - 3 + i, word |-> get_daily_word(Today - 3 + i)]]

OtherWord(word) == IF word = Added THEN Ebbed ELSE Added

\* One accepted guess of submit_guess on the session.
PlayGuess(session, guess, word) ==
    CommitGuess(session, session, guess, check_guess(guess, word),
                Outcome(AllCorrect(check_guess(guess, word)), session.attempts_used + 1))

RECURSIVE PlayAll(_, _, _)
PlayAll(session, guesses, word) ==
    IF guesses = <<>> THEN session
    ELSE PlayAll(PlayGuess(session, Head(guesses), word), Tail(guesses), word)

\* The guesses of a session left Active, lost, and won at the third guess.
StatGuesses(word) ==
    {<<OtherWord(word)>>,
     [i \in 1..MaxAttempts |-> OtherWord(word)],
     <<OtherWord(word), OtherWord(word), word>>}

\* The user's sessions on every date, and a won session of another user.
StatSessions ==
    UNION {{PlayAll(NewSession("u1", c), guesses, StatChallenges[c].word) :
                guesses \in StatGuesses(StatChallenges[c].word)} :
           c \in 1..Len(StatChallenges)}
    \cup {PlayAll(NewSession("other_user_456", 3),
                  <<StatChallenges[3].word>>, StatChallenges[3].word)}

\* The first query without its completed_at filter.
SessionsOfAnyState(u) ==
    {i \in 1..Len(wordleSessions) : wordleSessions[i].user_id = u}

\* filter(user_id == user_id, completed_at.isnot(None)): the row ids
CompletedSessionsOf(u) ==
    {i \in 1..Len(wordleSessions) :
        wordleSessions[i].user_id = u /\ wordleSessions[i].completed_at # None}

ChallengeDate(sid) == wordleChallenges[wordleSessions[sid].daily_challenge_id].date

\* join(WordleDailyChallenge) ... order_by(WordleDailyChallenge.date).all():
\* the results the query can give
SessionsByDate(u) ==
    {order \in [1..Cardinality(CompletedSessionsOf(u)) -> CompletedSessionsOf(u)] :
        /\ \A i, j \in DOMAIN order : i # j => order[i] # order[j]
        /\ \A i, j \in DOMAIN order : i < j => ChallengeDate(order[i]) <= ChallengeDate(order[j])}

NoDate == 0

\* The streak loop that counts won sessions whatever their dates.
StreakStepSessionCount(st, challenge_date, won) ==
    IF won
    THEN [temp_streak |-> st.temp_streak + 1,
          max_streak |-> IF st.temp_streak + 1 > st.max_streak
                         THEN st.temp_streak + 1 ELSE st.max_streak,
          prev_date |-> challenge_date]
    ELSE [st EXCEPT !.temp_streak = 0, !.prev_date = challenge_date]

\* One pass of the loop of service.py:225-239
StreakStep(st, challenge_date, won) ==
    IF won
    THEN LET temp == IF st.prev_date = NoDate \/ challenge_date - st.prev_date = 1
                     THEN st.temp_streak + 1 ELSE 1
         IN  [temp_streak |-> temp,
              max_streak |-> IF temp > st.max_streak THEN temp ELSE st.max_streak,
              prev_date |-> challenge_date]
    ELSE [st EXCEPT !.temp_streak = 0, !.prev_date = challenge_date]

\* for session in sessions_by_date, from the i-th on
RECURSIVE StreakLoop(_, _, _)
StreakLoop(order, i, st) ==
    IF i > Len(order) THEN st
    ELSE StreakLoop(order, i + 1,
                    StreakStep(st, ChallengeDate(order[i]), wordleSessions[order[i]].won))

\* service.py:241-250
CurrentStreak(order, st) ==
    IF order = <<>> THEN 0
    ELSE IF wordleSessions[order[Len(order)]].won
              /\ Today - ChallengeDate(order[Len(order)]) <= 1
    THEN st.temp_streak
    ELSE 0

\* round(wins / total_games * 100, 2) in hundredths of a percent
WinPercentage(wins, total_games) ==
    IF total_games > 0 THEN (((wins * 100000) \div total_games) + 5) \div 10 ELSE 0

\* The histogram that counts every Completed session, lost ones included.
GuessDistributionAllSessions(completed) ==
    [k \in 1..6 |-> Cardinality({i \in completed : wordleSessions[i].attempts_used = k})]

\* service.py:204-207: guess_distribution, index k for k guesses
GuessDistribution(completed) ==
    [k \in 1..6 |-> Cardinality({i \in completed :
        wordleSessions[i].won /\ wordleSessions[i].attempts_used = k})]

\* What get_user_stats returns when the second query gave the sessions in
\* this order.
WordleStats(u, order) ==
    LET completed == CompletedSessionsOf(u)
        wins == Cardinality({i \in completed : wordleSessions[i].won})
        st == StreakLoop(order, 1, [temp_streak |-> 0, max_streak |-> 0, prev_date |-> NoDate])
    IN  [total_games |-> Cardinality(completed),
         wins |-> wins,
         losses |-> Cardinality(completed) - wins,
         win_percentage |-> WinPercentage(wins, Cardinality(completed)),
         current_streak |-> CurrentStreak(order, st),
         max_streak |-> st.max_streak,
         guess_distribution |-> GuessDistribution(completed)]

get_user_stats(u) ==
    /\ \E order \in SessionsByDate(u) :
          wordleRet' = [op |-> "get_user_stats", user |-> u, sessions_by_date |-> order,
                        stats |-> WordleStats(u, order)]
    /\ UNCHANGED <<wordleChallenges, wordleSessions>>

InitWordleStats ==
    /\ EvalIdle
    /\ CrosswordIdle
    /\ ProcsIdle
    /\ wordleChallenges = StatChallenges
    /\ wordleSessions \in UNION {[1..n -> StatSessions] : n \in 0..MaxStatSessions}
    /\ wordleRet = NoRet

GetUserStats ==
    /\ \E u \in ApiUsers : get_user_stats(u)
    /\ UNCHANGED <<evalVars, cwVars, procs>>

NextWordleStats == GetUserStats

SpecWordleStats == InitWordleStats /\ [][NextWordleStats]_vars

\* Histories for the histogram: sessions on yesterday's and today's puzzle
\* left Active, lost, and won at the first, the third and the last guess.
HistogramGuesses(word) ==
    StatGuesses(word)
    \cup {<<word>>, [i \in 1..MaxAttempts |-> IF i = MaxAttempts THEN word ELSE OtherWord(word)]}

HistogramSessions ==
    UNION {{PlayAll(NewSession("u1", c), guesses, StatChallenges[c].word) :
                guesses \in HistogramGuesses(StatChallenges[c].word)} :
           c \in {2, 3}}
    \cup {PlayAll(NewSession("other_user_456", 3),
                  <<StatChallenges[3].word>>, StatChallenges[3].word)}

InitWordleHistogram ==
    /\ EvalIdle
    /\ CrosswordIdle
    /\ ProcsIdle
    /\ wordleChallenges = StatChallenges
    /\ wordleSessions \in UNION {[1..n -> HistogramSessions] : n \in 0..MaxStatSessions}
    /\ wordleRet = NoRet

SpecWordleHistogram == InitWordleHistogram /\ [][NextWordleStats]_vars

StatsReturned == wordleRet.op = "get_user_stats"

\* The sessions get_user_stats walked, oldest puzzle date first.
Walked == wordleRet.sessions_by_date

\* Sessions i..j of the walk are wins on successive calendar days.
WinRun(i, j) ==
    /\ \A k \in i..j : wordleSessions[Walked[k]].won
    /\ \A k \in i..(j - 1) : ChallengeDate(Walked[k + 1]) = ChallengeDate(Walked[k]) + 1

\* C28: current_streak is the number of sessions at the end of the date-ordered
\* walk that are wins on successive calendar days, when the last session is a
\* win dated today or yesterday, and 0 otherwise.
C28_CurrentStreakDateBased ==
    StatsReturned =>
        wordleRet.stats.current_streak =
            IF /\ Walked # <<>>
               /\ wordleSessions[Walked[Len(Walked)]].won
               /\ ChallengeDate(Walked[Len(Walked)]) \in {Today, Today - 1}
            THEN Cardinality({i \in 1..Len(Walked) : WinRun(i, Len(Walked))})
            ELSE 0

\* C29: max_streak is the length of the longest stretch of the date-ordered
\* walk whose sessions are wins on successive calendar days, 0 without a win;
\* a win, a gap day and a win give 1.
C29_MaxStreakLongestRun ==
    StatsReturned =>
        /\ \A i, j \in 1..Len(Walked) :
              (i <= j /\ WinRun(i, j)) => wordleRet.stats.max_streak >= j - i + 1
        /\ \/ wordleRet.stats.max_streak = 0
           \/ \E i, j \in 1..Len(Walked) :
                 i <= j /\ WinRun(i, j) /\ wordleRet.stats.max_streak = j - i + 1

\* The stored sessions of the user the statistics are about.
RowsOfUser == {i \in 1..Len(wordleSessions) : wordleSessions[i].user_id = wordleRet.user}

WonRows == {i \in RowsOfUser : wordleSessions[i].completed_at # None /\ wordleSessions[i].won}

LostRows == {i \in RowsOfUser : wordleSessions[i].completed_at # None /\ ~wordleSessions[i].won}

RECURSIVE SumBuckets(_, _)
SumBuckets(dist, k) == IF k = 0 THEN 0 ELSE dist[k] + SumBuckets(dist, k - 1)

\* C31: bucket k of guess_distribution is the number of the user's won
\* Completed sessions with attempts_used = k, lost sessions are in no bucket,
\* the six buckets sum to wins, and wins + losses = total_games.
C31_GuessDistributionCountsWins ==
    StatsReturned =>
        /\ DOMAIN wordleRet.stats.guess_distribution = 1..6
        /\ \A k \in 1..6 :
              wordleRet.stats.guess_distribution[k] =
                  Cardinality({i \in WonRows : wordleSessions[i].attempts_used = k})
        /\ SumBuckets(wordleRet.stats.guess_distribution, 6) = wordleRet.stats.wins
        /\ wordleRet.stats.wins = Cardinality(WonRows)
        /\ wordleRet.stats.losses = Cardinality(LostRows)
        /\ wordleRet.stats.wins + wordleRet.stats.losses = wordleRet.stats.total_games

\* A win at the first guess, a win at the sixth and a lost session.
C31_Witness ==
    /\ StatsReturned
    /\ wordleRet.stats.guess_distribution[1] = 1
    /\ wordleRet.stats.guess_distribution[6] = 1
    /\ wordleRet.stats.losses = 1

\* C32: for a user without a Completed session, Active sessions or none, the
\* statistics are returned (no error) with total_games, wins, losses,
\* win_percentage, current_streak and max_streak 0 and six zero buckets.
C32_NoCompletedSessionAllZero ==
    (StatsReturned /\ \A i \in RowsOfUser : wordleSessions[i].completed_at = None) =>
        wordleRet.stats =
            [total_games |-> 0, wins |-> 0, losses |-> 0, win_percentage |-> 0,
             current_streak |-> 0, max_streak |-> 0,
             guess_distribution |-> [k \in 1..6 |-> 0]]

\* Statistics of a user whose sessions are all Active.
C32_Witness ==
    /\ StatsReturned
    /\ Cardinality(RowsOfUser) = 2
    /\ \A i \in RowsOfUser : wordleSessions[i].completed_at = None
    /\ wordleRet.stats.total_games = 0

\* A win, a gap day, then a win: max_streak is 1 with two wins.
C29_Witness ==
    /\ StatsReturned
    /\ wordleRet.stats.wins = 2
    /\ wordleRet.stats.total_games = 2
    /\ wordleRet.stats.max_streak = 1
    /\ ChallengeDate(Walked[2]) = ChallengeDate(Walked[1]) + 2

(***************************************************************************)
(* Crossword service (crossword/service.py).  A grid is a list of rows of  *)
(* one-character cells, "." a black cell and "" an empty cell; rows and    *)
(* columns are counted from 0 as in the source.                            *)
(***************************************************************************)
\* Cap of hints_used in the model: a hint is only taken below it.
MaxHints == 3

CrosswordDates == {738900}

\* The sessions the model lets the users start.
CrosswordSessionIds == {1}

SessionNotFoundError == "SessionNotFoundError"
SessionAlreadyCompletedError == "SessionAlreadyCompletedError"
PuzzleNotFoundError == "PuzzleNotFoundError"
ValueError == "ValueError"

\* Puzzle content as the generator returns it once validated.
PuzzleA ==
    [grid |-> << <<"A", "B">>, <<".", "C">> >>,
     clues_across |-> [k \in {"1", "3", "4"} |-> "clue"],
     clues_down |-> [k \in {"1", "2", "5"} |-> "clue"],
     answers_across |-> ("1" :> "AB") @@ ("3" :> "C") @@ ("4" :> "BC"),
     answers_down |-> ("1" :> "A") @@ ("2" :> "BC") @@ ("5" :> "CA")]

PuzzleB ==
    [grid |-> << <<"D", ".">>, <<"E", "A">> >>,
     clues_across |-> [k \in {"1", "2", "3"} |-> "clue"],
     clues_down |-> [k \in {"1", "2", "3"} |-> "clue"],
     answers_across |-> ("1" :> "D") @@ ("2" :> "EA") @@ ("3" :> "AE"),
     answers_down |-> ("1" :> "DE") @@ ("2" :> "A") @@ ("3" :> "ED")]

\* generate_crossword_with_fallback returned None
NoPuzzle ==
    [grid |-> <<>>, clues_across |-> <<>>, clues_down |-> <<>>,
     answers_across |-> <<>>, answers_down |-> <<>>]

(***************************************************************************)
(* Puzzle generation (crossword/generator_service.py): one call of         *)
(* call_llm_for_crossword, a step per provider call and per sleep.         *)
(***************************************************************************)
\* settings.CROSSWORD_MAX_RETRIES
CROSSWORD_MAX_RETRIES == 3

CrosswordGenerationError == "CrosswordGenerationError"

\* Provider answers that parse as JSON but are no puzzle: two across words
\* only, a lowercase cell, a missing field.
PuzzleTwoAcross ==
    [PuzzleA EXCEPT !.answers_across = ("1" :> "AB") @@ ("3" :> "C")]

PuzzleLowercase ==
    [PuzzleA EXCEPT !.grid = << <<"a", "B">>, <<".", "C">> >>]

PuzzleNoDown ==
    [grid |-> PuzzleA.grid, clues_across |-> PuzzleA.clues_across,
     clues_down |-> PuzzleA.clues_down, answers_across |-> PuzzleA.answers_across]

RequiredFields == {"grid", "clues_across", "clues_down", "answers_across", "answers_down"}

\* The validation that stops after the required fields.
validate_required_fields_only(data) == RequiredFields \subseteq DOMAIN data

\* is_valid of validate_crossword_structure (generator_service.py:221-286);
\* the letters are those of UpperAlphabet.
validate_crossword_structure(data) ==
    /\ RequiredFields \subseteq DOMAIN data
    /\ Len(data.grid) # 0
    /\ Len(data.grid) <= 5
    /\ \A i \in 1..Len(data.grid) : Len(data.grid[i]) <= 5
    /\ \A i \in 1..Len(data.grid) : \A j \in 1..Len(data.grid[i]) :
          data.grid[i][j] = "." \/ Contains(UpperAlphabet, data.grid[i][j])
    /\ Cardinality(DOMAIN data.answers_across) >= 3
    /\ Cardinality(DOMAIN data.answers_down) >= 3
    /\ DOMAIN data.answers_across \subseteq DOMAIN data.clues_across
    /\ DOMAIN data.answers_down \subseteq DOMAIN data.clues_down
    /\ \A num \in DOMAIN data.answers_across : data.answers_across[num] # ""
    /\ \A num \in DOMAIN data.answers_down : data.answers_down[num] # ""

\* What one call of bedrock_client.invoke_model ends with: parsed JSON, or an
\* exception (a ClientError carries its error code).
Provided(data) == [kind |-> "data", code |-> None, data |-> data]

Failed(kind, code) == [kind |-> kind, code |-> code, data |-> NoPuzzle]

ProviderOutcomes ==
    {Provided(PuzzleA), Provided(PuzzleTwoAcross), Provided(PuzzleLowercase),
     Provided(PuzzleNoDown),
     Failed("ClientError", "ThrottlingException"),
     Failed("ClientError", "AccessDeniedException"),
     Failed("JSONDecodeError", None),
     Failed("Exception", None)}

RetryableCodes ==
    {"ThrottlingException", "ServiceUnavailableException", "ModelTimeoutException"}

\* The call: where it stands, the resolved max_retries, the loop variable,
\* the provider calls and sleeps so far, and how it ended.
IdleGenerator ==
    [pc |-> "idle", max_retries |-> 0, attempt |-> 0, log |-> <<>>,
     error |-> None, puzzle_data |-> NoPuzzle]

Invoked(outcome) == [event |-> "invoke_model", outcome |-> outcome, seconds |-> 0]

Slept(seconds) == [event |-> "sleep", outcome |-> Failed(None, None), seconds |-> seconds]

\* range(max_retries) that yields one value more.
ExhaustedOneLate(attempt, max_retries) == attempt > max_retries

\* range(max_retries) has no value left for the loop variable
Exhausted(attempt, max_retries) == attempt >= max_retries

\* The statement after the loop (generator_service.py:360-362)
RaiseGenerationError(g) == [g EXCEPT !.pc = "raised", !.error = CrosswordGenerationError]

\* The loop takes its next value, or ends.
NextAttempt(g) ==
    IF Exhausted(g.attempt + 1, g.max_retries)
    THEN RaiseGenerationError([g EXCEPT !.attempt = g.attempt + 1])
    ELSE [g EXCEPT !.pc = "invoke_model", !.attempt = g.attempt + 1]

\* if attempt < max_retries - 1: wait_time = 2 ** attempt; sleep; continue
SleepOrFallThrough(g) ==
    IF g.attempt < g.max_retries - 1
    THEN [g EXCEPT !.pc = "sleep"]
    ELSE NextAttempt(g)

\* max_retries is <<>> for None and <<n>> for the number n.
call_llm_for_crossword(g, max_retries) ==
    LET n == IF max_retries = <<>> THEN CROSSWORD_MAX_RETRIES ELSE max_retries[1]
    IN  IF Exhausted(0, n)
        THEN RaiseGenerationError([g EXCEPT !.max_retries = n])
        ELSE [g EXCEPT !.pc = "invoke_model", !.max_retries = n]

\* The pass that retries after every ClientError, whatever its code.
AfterInvokeRetryAll(g, outcome) ==
    IF outcome.kind = "data"
    THEN IF validate_crossword_structure(outcome.data)
         THEN [g EXCEPT !.pc = "returned", !.puzzle_data = outcome.data]
         ELSE NextAttempt(g)
    ELSE SleepOrFallThrough(g)

\* One pass through the try statement, up to a sleep (generator_service.py:310-358).
AfterInvoke(g, outcome) ==
    IF outcome.kind = "data"
    THEN IF validate_crossword_structure(outcome.data)
         THEN [g EXCEPT !.pc = "returned", !.puzzle_data = outcome.data]
         ELSE NextAttempt(g)
    ELSE IF outcome.kind = "ClientError" /\ outcome.code \notin RetryableCodes
    THEN RaiseGenerationError(g)
    ELSE SleepOrFallThrough(g)

\* The provider call of one attempt and what the loop does with its outcome.
InvokeStep(g, outcome) == AfterInvoke([g EXCEPT !.log = Append(@, Invoked(outcome))], outcome)

\* await asyncio.sleep(2 ** attempt); continue
SleepStep(g) == NextAttempt([g EXCEPT !.log = Append(@, Slept(2 ^ g.attempt))])

\* generate_crossword_with_fallback: the data, or None for any exception
generate_crossword_with_fallback(g) ==
    IF g.pc = "returned" THEN g.puzzle_data ELSE NoPuzzle

PuzzleRow(d, data) ==
    [date |-> d, grid_data |-> data.grid,
     clues_across |-> data.clues_across, clues_down |-> data.clues_down,
     answers_across |-> data.answers_across, answers_down |-> data.answers_down]

\* db.query(CrosswordDailyPuzzle).filter(date == puzzle_date).first(): row id or 0
PuzzleForDate(table, d) ==
    IF \E i \in 1..Len(table) : table[i].date = d
    THEN CHOOSE i \in 1..Len(table) : table[i].date = d
    ELSE 0

\* PuzzlesAfterEnsure that keeps a row without content when there is no data.
PuzzlesAfterEnsurePlaceholder(table, d, data) ==
    IF PuzzleForDate(table, d) # 0
    THEN table
    ELSE Append(table, PuzzleRow(d, data))

\* ensure_daily_puzzle_exists run without interruption, the generator having
\* returned data: the table afterwards
PuzzlesAfterEnsure(table, d, data) ==
    IF PuzzleForDate(table, d) # 0 \/ data = NoPuzzle
    THEN table
    ELSE Append(table, PuzzleRow(d, data))

EmptyGrid(grid_data) ==
    [r \in 1..Len(grid_data) |->
        [c \in 1..Len(grid_data[r]) |-> IF grid_data[r][c] = "." THEN "." ELSE ""]]

\* The columns are those the constructor call of start_daily_challenge names;
\* completion_time_seconds is NULL (0 here) until complete_session sets it.
NewCrosswordSession(u, puzzle_id, grid_data) ==
    [user_id |-> u, daily_puzzle_id |-> puzzle_id,
     current_grid |-> [grid |-> EmptyGrid(grid_data)],
     completed |-> FALSE, completion_time_seconds |-> 0, completed_at |-> None,
     revealed_cells |-> <<>>, hints_used |-> 0, revealed_all |-> FALSE]

CwRaised(name, sid, err) == [NoCwRet EXCEPT !.op = name, !.session = sid, !.error = err]

CwReturned(name, sid, v) == [NoCwRet EXCEPT !.op = name, !.session = sid, !.value = v]

WithArgs(ret, cell, letter) == [ret EXCEPT !.cell = cell, !.letter = letter]

crossword_start_daily_challenge(u, d, data) ==
    /\ Len(cwSessions) < Cardinality(CrosswordSessionIds)
    /\ cwPuzzles' = PuzzlesAfterEnsure(cwPuzzles, d, data)
    /\ IF PuzzleForDate(cwPuzzles', d) = 0
       THEN /\ cwRet' = CwRaised("start_daily_challenge", 0, PuzzleNotFoundError)
            /\ UNCHANGED cwSessions
       ELSE /\ cwSessions' = Append(cwSessions,
                    NewCrosswordSession(u, PuzzleForDate(cwPuzzles', d),
                                        cwPuzzles'[PuzzleForDate(cwPuzzles', d)].grid_data))
            /\ cwRet' = CwReturned("start_daily_challenge", Len(cwSessions'), None)

\* The two checks every mutator starts with: the error it raises, or None.
Rejection(sid) ==
    IF sid \notin 1..Len(cwSessions) THEN SessionNotFoundError
    ELSE IF cwSessions[sid].completed THEN SessionAlreadyCompletedError
    ELSE None

(***************************************************************************)
(* db.commit() of a mutator.  session is the object the request loaded and *)
(* assigned to, row the stored row its UPDATE meets.  The UPDATE sets the  *)
(* columns whose assigned value differs from the loaded one: the unit of   *)
(* work compares the two with == (the columns are plain JSON, Integer and  *)
(* Boolean columns), so a list or dict that was changed in place and       *)
(* assigned back compares equal to itself and is not written.              *)
(***************************************************************************)
\* CommitUpdate that also marks the session completed.
CommitUpdateCompletes(row, session, grid_data) ==
    [row EXCEPT !.current_grid = grid_data, !.completed = TRUE]

CommitUpdate(row, session, grid_data) ==
    IF grid_data # session.current_grid
    THEN [row EXCEPT !.current_grid = grid_data]
    ELSE row

update_session(sid, grid_data) ==
    IF Rejection(sid) # None
    THEN /\ cwRet' = CwRaised("update_session", sid, Rejection(sid))
         /\ UNCHANGED <<cwPuzzles, cwSessions>>
    ELSE /\ cwSessions' = [cwSessions EXCEPT ![sid] =
                CommitUpdate(cwSessions[sid], cwSessions[sid], grid_data)]
         /\ cwRet' = CwReturned("update_session", sid, None)
         /\ UNCHANGED cwPuzzles

\* session.current_grid.get("grid", [])
GetGrid(current_grid) ==
    IF "grid" \in DOMAIN current_grid THEN current_grid.grid ELSE <<>>

\* user_grid[i][j] if i < len(user_grid) and j < len(user_grid[i]) else ""
UserCell(user_grid, i, j) ==
    IF i < Len(user_grid) /\ j < Len(user_grid[i + 1]) THEN user_grid[i + 1][j + 1] ELSE ""

\* AllCellsCorrect that compares the cells as typed.
AllCellsCorrectExact(correct_grid, user_grid) ==
    \A i \in 0..(Len(correct_grid) - 1) : \A j \in 0..(Len(correct_grid[i + 1]) - 1) :
        \/ correct_grid[i + 1][j + 1] = "."
        \/ UserCell(user_grid, i, j) = correct_grid[i + 1][j + 1]

\* The loop of service.py:259-271: all_cells_correct after the last cell
AllCellsCorrect(correct_grid, user_grid) ==
    \A i \in 0..(Len(correct_grid) - 1) : \A j \in 0..(Len(correct_grid[i + 1]) - 1) :
        \/ correct_grid[i + 1][j + 1] = "."
        \/ UpperChar(UserCell(user_grid, i, j)) = UpperChar(correct_grid[i + 1][j + 1])

\* CheckResult that never sets the down flags.
CheckResultAcrossOnly(puzzle, user_grid) ==
    [correct_across |-> [num \in DOMAIN puzzle.answers_across |->
                            AllCellsCorrect(puzzle.grid_data, user_grid)],
     correct_down |-> [num \in DOMAIN puzzle.answers_down |-> FALSE],
     all_correct |-> AllCellsCorrect(puzzle.grid_data, user_grid)]

\* The dict check_answers returns (service.py:239-284).
CheckResult(puzzle, user_grid) ==
    [correct_across |-> [num \in DOMAIN puzzle.answers_across |->
                            AllCellsCorrect(puzzle.grid_data, user_grid)],
     correct_down |-> [num \in DOMAIN puzzle.answers_down |->
                            AllCellsCorrect(puzzle.grid_data, user_grid)],
     all_correct |-> AllCellsCorrect(puzzle.grid_data, user_grid)]

\* check_answers tests that the session exists and nothing else.
check_answers(sid) ==
    IF sid \notin 1..Len(cwSessions)
    THEN /\ cwRet' = CwRaised("check_answers", sid, SessionNotFoundError)
         /\ UNCHANGED <<cwPuzzles, cwSessions>>
    ELSE /\ cwRet' = [CwReturned("check_answers", sid, None) EXCEPT
                         !.checked = CheckResult(cwPuzzles[cwSessions[sid].daily_puzzle_id],
                                                 GetGrid(cwSessions[sid].current_grid))]
         /\ UNCHANGED <<cwPuzzles, cwSessions>>

CommitComplete(row, completion_time_seconds) ==
    [row EXCEPT !.completed = TRUE,
                !.completion_time_seconds = completion_time_seconds,
                !.completed_at = UtcNow]

complete_session(sid, completion_time_seconds) ==
    IF Rejection(sid) # None
    THEN /\ cwRet' = CwRaised("complete_session", sid, Rejection(sid))
         /\ UNCHANGED <<cwPuzzles, cwSessions>>
    ELSE /\ cwSessions' = [cwSessions EXCEPT ![sid] =
                CommitComplete(cwSessions[sid], completion_time_seconds)]
         /\ cwRet' = CwReturned("complete_session", sid, None)
         /\ UNCHANGED cwPuzzles

SolutionOf(session) == cwPuzzles[session.daily_puzzle_id].grid_data

\* row < 0 or row >= len(grid) or col < 0 or col >= len(grid[row])
OutOfBounds(grid, row, col) ==
    row < 0 \/ row >= Len(grid) \/ col < 0 \/ col >= Len(grid[row + 1])

\* CellError that lets black cells through.
CellErrorBoundsOnly(grid, row, col) ==
    IF OutOfBounds(grid, row, col) THEN ValueError ELSE None

\* The bounds and black-cell checks of reveal_cell and check_cell.
CellError(grid, row, col) ==
    IF OutOfBounds(grid, row, col) THEN ValueError
    ELSE IF grid[row + 1][col + 1] = "." THEN ValueError
    ELSE None

CellPos(row, col) == [row |-> row, col |-> col]

\* row < len(user_grid) and col < len(user_grid[row])
HasCell(user_grid, row, col) == row < Len(user_grid) /\ col < Len(user_grid[row + 1])

\* user_grid[row][col] = correct_letter, when the user's grid has that cell
WithCell(user_grid, row, col, letter) ==
    IF HasCell(user_grid, row, col)
    THEN [user_grid EXCEPT ![row + 1][col + 1] = letter]
    ELSE user_grid

\* cell_pos not in revealed_cells
NotYetRevealed(session, row, col) == ~Contains(session.revealed_cells, CellPos(row, col))

\* The grid column reveal_cell writes: user_grid is the list inside the loaded
\* dict and is changed in place, so the loaded dict holds the letter too; the
\* new dict {"grid": user_grid} differs from it only by the other keys.
GridAfterReveal(row, session, r, c, letter) ==
    IF HasCell(GetGrid(session.current_grid), r, c)
         /\ [grid |-> WithCell(GetGrid(session.current_grid), r, c, letter)]
               # [session.current_grid EXCEPT
                    !.grid = WithCell(GetGrid(session.current_grid), r, c, letter)]
    THEN [grid |-> WithCell(GetGrid(session.current_grid), r, c, letter)]
    ELSE row.current_grid

\* service.py:375-391.  revealed_cells = session.revealed_cells or [] is a new
\* list when the loaded one is empty and the loaded list itself otherwise; in
\* the second case the append happens in place and the assignment is not
\* seen as a change.
CommitRevealCell(row, session, r, c, letter) ==
    [row EXCEPT
        !.revealed_cells = IF NotYetRevealed(session, r, c) /\ session.revealed_cells = <<>>
                           THEN <<CellPos(r, c)>>
                           ELSE row.revealed_cells,
        !.hints_used = IF NotYetRevealed(session, r, c)
                       THEN session.hints_used + 1 ELSE row.hints_used,
        !.current_grid = GridAfterReveal(row, session, r, c, letter)]

reveal_cell(sid, row, col) ==
    IF Rejection(sid) # None
    THEN /\ cwRet' = WithArgs(CwRaised("reveal_cell", sid, Rejection(sid)),
                              <<row, col>>, "")
         /\ UNCHANGED <<cwPuzzles, cwSessions>>
    ELSE IF CellError(SolutionOf(cwSessions[sid]), row, col) # None
    THEN /\ cwRet' = WithArgs(CwRaised("reveal_cell", sid,
                                       CellError(SolutionOf(cwSessions[sid]), row, col)),
                              <<row, col>>, "")
         /\ UNCHANGED <<cwPuzzles, cwSessions>>
    ELSE \E session \in {cwSessions[sid]} :
         \E correct_letter \in {SolutionOf(session)[row + 1][col + 1]} :
             /\ NotYetRevealed(session, row, col) => session.hints_used < MaxHints
             /\ cwSessions' = [cwSessions EXCEPT ![sid] =
                    CommitRevealCell(session, session, row, col, correct_letter)]
             /\ cwRet' = WithArgs(CwReturned("reveal_cell", sid, correct_letter),
                                  <<row, col>>, "")
             /\ UNCHANGED cwPuzzles

PyBool(b) == IF b THEN "True" ELSE "False"

\* letter.upper() == correct_letter.upper()
IsCorrectLetter(letter, correct_letter) == UpperChar(letter) = UpperChar(correct_letter)

\* CommitCheckCell that charges no hint.
CommitCheckCellFree(row, session) == row

CommitCheckCell(row, session) == [row EXCEPT !.hints_used = session.hints_used + 1]

check_cell(sid, row, col, letter) ==
    IF Rejection(sid) # None
    THEN /\ cwRet' = WithArgs(CwRaised("check_cell", sid, Rejection(sid)),
                              <<row, col>>, letter)
         /\ UNCHANGED <<cwPuzzles, cwSessions>>
    ELSE IF CellError(SolutionOf(cwSessions[sid]), row, col) # None
    THEN /\ cwRet' = WithArgs(CwRaised("check_cell", sid,
                                       CellError(SolutionOf(cwSessions[sid]), row, col)),
                              <<row, col>>, letter)
         /\ UNCHANGED <<cwPuzzles, cwSessions>>
    ELSE /\ cwSessions[sid].hints_used < MaxHints
         /\ cwSessions' = [cwSessions EXCEPT ![sid] =
                CommitCheckCell(cwSessions[sid], cwSessions[sid])]
         /\ cwRet' = WithArgs(CwReturned("check_cell", sid,
                PyBool(IsCorrectLetter(letter,
                                       SolutionOf(cwSessions[sid])[row + 1][col + 1]))),
                              <<row, col>>, letter)
         /\ UNCHANGED cwPuzzles

\* complete_data of reveal_all (service.py:498-502)
CompleteData(puzzle) ==
    [complete_grid |-> puzzle.grid_data,
     answers_across |-> puzzle.answers_across,
     answers_down |-> puzzle.answers_down]

\* CommitRevealAll that leaves the user's grid as it was.
CommitRevealAllKeepGrid(row, session, solution) ==
    [row EXCEPT !.revealed_all = TRUE, !.hints_used = session.hints_used + 1]

CommitRevealAll(row, session, solution) ==
    [row EXCEPT
        !.revealed_all = TRUE,
        !.hints_used = session.hints_used + 1,
        !.current_grid = IF [grid |-> solution] # session.current_grid
                         THEN [grid |-> solution] ELSE row.current_grid]

\* reveal_all without the test for a completed session.
reveal_all_unchecked(sid) ==
    IF sid \notin 1..Len(cwSessions)
    THEN /\ cwRet' = CwRaised("reveal_all", sid, SessionNotFoundError)
         /\ UNCHANGED <<cwPuzzles, cwSessions>>
    ELSE /\ cwSessions[sid].hints_used < MaxHints
         /\ cwSessions' = [cwSessions EXCEPT ![sid] =
                CommitRevealAll(cwSessions[sid], cwSessions[sid],
                                SolutionOf(cwSessions[sid]))]
         /\ cwRet' = [CwReturned("reveal_all", sid, "complete_data") EXCEPT
                         !.complete_data =
                             CompleteData(cwPuzzles[cwSessions[sid].daily_puzzle_id])]
         /\ UNCHANGED cwPuzzles

reveal_all(sid) ==
    IF Rejection(sid) # None
    THEN /\ cwRet' = CwRaised("reveal_all", sid, Rejection(sid))
         /\ UNCHANGED <<cwPuzzles, cwSessions>>
    ELSE /\ cwSessions[sid].hints_used < MaxHints
         /\ cwSessions' = [cwSessions EXCEPT ![sid] =
                CommitRevealAll(cwSessions[sid], cwSessions[sid],
                                SolutionOf(cwSessions[sid]))]
         /\ cwRet' = [CwReturned("reveal_all", sid, "complete_data") EXCEPT
                         !.complete_data =
                             CompleteData(cwPuzzles[cwSessions[sid].daily_puzzle_id])]
         /\ UNCHANGED cwPuzzles

\* What callers send: grids (the solution typed in lowercase with a letter in
\* the black cell, a wrong grid, a
\* grid with a single cell, a dict with a second key, a dict without "grid"),
\* cell positions (inside, black, outside), letters
\* and completion times.
GridInputs ==
    {[grid |-> << <<"a", "b">>, <<"d", "c">> >>],
     [grid |-> << <<"A", "D">>, <<".", "">> >>],
     [grid |-> << <<"B">> >>],
     [grid |-> << <<"A", "">>, <<".", "C">> >>, notes |-> "pencil"],
     [notes |-> "pencil"]}

CellInputs == {<<0, 0>>, <<0, 1>>, <<1, 0>>, <<1, 1>>, <<2, 0>>, <<0, 0 - 1>>}

LetterInputs == {"a", "B"}

TimeInputs == {30, 95}

InitCrossword ==
    /\ EvalIdle
    /\ WordleIdle
    /\ CrosswordIdle
    /\ ProcsIdle

CrosswordStart ==
    /\ \E u \in Users, d \in CrosswordDates, data \in {PuzzleA, NoPuzzle} :
          crossword_start_daily_challenge(u, d, data)
    /\ UNCHANGED <<evalVars, wordleVars, procs>>

UpdateSession ==
    /\ \E sid \in 1..(Cardinality(CrosswordSessionIds) + 1), g \in GridInputs :
          update_session(sid, g)
    /\ UNCHANGED <<evalVars, wordleVars, procs>>

CompleteSession ==
    /\ \E sid \in 1..(Cardinality(CrosswordSessionIds) + 1), t \in TimeInputs :
          complete_session(sid, t)
    /\ UNCHANGED <<evalVars, wordleVars, procs>>

RevealCell ==
    /\ \E sid \in 1..(Cardinality(CrosswordSessionIds) + 1), cell \in CellInputs :
          reveal_cell(sid, cell[1], cell[2])
    /\ UNCHANGED <<evalVars, wordleVars, procs>>

CheckCell ==
    /\ \E sid \in 1..(Cardinality(CrosswordSessionIds) + 1), cell \in CellInputs,
          letter \in LetterInputs :
          check_cell(sid, cell[1], cell[2], letter)
    /\ UNCHANGED <<evalVars, wordleVars, procs>>

RevealAll ==
    /\ \E sid \in 1..(Cardinality(CrosswordSessionIds) + 1) : reveal_all(sid)
    /\ UNCHANGED <<evalVars, wordleVars, procs>>

CheckAnswers ==
    /\ \E sid \in 1..(Cardinality(CrosswordSessionIds) + 1) : check_answers(sid)
    /\ UNCHANGED <<evalVars, wordleVars, procs>>

NextCrossword ==
    \/ CrosswordStart
    \/ UpdateSession
    \/ CompleteSession
    \/ RevealCell
    \/ CheckCell
    \/ RevealAll
    \/ CheckAnswers

SpecCrossword == InitCrossword /\ [][NextCrossword]_vars

CrosswordMutators ==
    {"update_session", "reveal_cell", "reveal_all", "check_cell", "complete_session"}

\* C7: on a Completed crossword session update_session, reveal_cell,
\* reveal_all, check_cell and complete_session each raise
\* SessionAlreadyCompletedError and leave the session record as it was.
C7_CompletedCrosswordRejects ==
    [][\A sid \in 1..Len(cwSessions) :
          cwSessions[sid].completed =>
              /\ cwSessions'[sid] = cwSessions[sid]
              /\ (cwRet'.op \in CrosswordMutators /\ cwRet'.session = sid)
                    => cwRet'.error = SessionAlreadyCompletedError]_vars

\* reveal_all was refused on a completed session that holds hints and reveals.
C7_Witness ==
    /\ cwRet.op = "reveal_all"
    /\ cwRet.error = SessionAlreadyCompletedError
    /\ cwSessions[cwRet.session].completed
    /\ cwSessions[cwRet.session].hints_used < MaxHints
    /\ cwSessions[cwRet.session].revealed_cells # <<>>
    /\ ~cwSessions[cwRet.session].revealed_all

\* A check_answers call returned for the session, which it left as it was.
CheckReturned == cwRet.op = "check_answers" /\ cwRet.error = None

CheckedGrid == GetGrid(cwSessions[cwRet.session].current_grid)

CheckedPuzzle == cwPuzzles[cwSessions[cwRet.session].daily_puzzle_id]

\* The user's grid holds the solution letter at every cell that is not black.
GridMatches(solution, user_grid) ==
    \A r \in 1..Len(solution) : \A c \in 1..Len(solution[r]) :
        solution[r][c] # "." =>
            /\ r <= Len(user_grid)
            /\ c <= Len(user_grid[r])
            /\ LowerChar(user_grid[r][c]) = LowerChar(solution[r][c])

\* C16: check_answers reports all_correct = true exactly when every
\* non-black cell of the solution equals the user's cell, case-insensitively;
\* black cells are not compared and a cell the user's grid lacks is a mismatch.
C16_AllCorrectIffGridMatches ==
    CheckReturned =>
        (cwRet.checked.all_correct <=> GridMatches(CheckedPuzzle.grid_data, CheckedGrid))

\* The solution typed in lowercase, with a letter in the black cell, passes.
C16_Witness ==
    /\ CheckReturned
    /\ cwRet.checked.all_correct
    /\ CheckedGrid # CheckedPuzzle.grid_data
    /\ CheckedGrid[2][1] # "."

\* C17: every across and every down flag of check_answers equals all_correct,
\* and the flag maps have the keys of answers_across and answers_down.
C17_WordFlagsEqualAllCorrect ==
    CheckReturned =>
        /\ DOMAIN cwRet.checked.correct_across = DOMAIN CheckedPuzzle.answers_across
        /\ DOMAIN cwRet.checked.correct_down = DOMAIN CheckedPuzzle.answers_down
        /\ \A num \in DOMAIN cwRet.checked.correct_across :
              cwRet.checked.correct_across[num] = cwRet.checked.all_correct
        /\ \A num \in DOMAIN cwRet.checked.correct_down :
              cwRet.checked.correct_down[num] = cwRet.checked.all_correct

\* 3-across ("C") is filled in correctly, another cell is empty: every flag,
\* that of 3-across included, is false.
C17_Witness ==
    /\ CheckReturned
    /\ ~cwRet.checked.all_correct
    /\ Len(CheckedGrid) = 2
    /\ CheckedGrid[2][2] = "C"
    /\ ~cwRet.checked.correct_across["3"]

RevealReturned(ret) == ret.op = "reveal_cell" /\ ret.error = None

\* C18: revealing a cell that an earlier reveal_cell call already revealed
\* returns the same letter and neither increments hints_used nor adds an
\* entry to revealed_cells, whatever was revealed before.  Stated for a call
\* that repeats the call before it.
C18_RepeatedRevealCountsOnce ==
    [][(/\ RevealReturned(cwRet)
        /\ RevealReturned(cwRet')
        /\ cwRet'.session = cwRet.session
        /\ cwRet'.cell = cwRet.cell)
       => /\ cwRet'.value = cwRet.value
          /\ cwSessions'[cwRet.session].hints_used = cwSessions[cwRet.session].hints_used
          /\ cwSessions'[cwRet.session].revealed_cells
                = cwSessions[cwRet.session].revealed_cells]_vars

\* The position is outside the solution grid or holds a black cell.
BadCell(solution, cell) ==
    \/ cell[1] \notin 0..(Len(solution) - 1)
    \/ cell[2] \notin 0..(Len(solution[cell[1] + 1]) - 1)
    \/ solution[cell[1] + 1][cell[2] + 1] = "."

\* C19: reveal_cell and check_cell on a black cell or a position outside the
\* grid of an Active session raise ValueError and leave every session as it
\* was: no hint is charged, revealed_cells and current_grid keep their values.
C19_BadCellRejected ==
    [][(/\ cwRet'.op \in {"reveal_cell", "check_cell"}
        /\ cwRet'.session \in 1..Len(cwSessions)
        /\ ~cwSessions[cwRet'.session].completed
        /\ BadCell(SolutionOf(cwSessions[cwRet'.session]), cwRet'.cell))
       => /\ cwRet'.error = ValueError
          /\ cwSessions' = cwSessions]_vars

\* check_cell was refused on the black cell of a session that holds a hint.
C19_Witness ==
    /\ cwRet.op = "check_cell"
    /\ cwRet.error = ValueError
    /\ cwRet.cell = <<1, 0>>
    /\ cwSessions[cwRet.session].hints_used = 1
    /\ ~cwSessions[cwRet.session].completed

\* C20: a successful check_cell increments hints_used by exactly 1, returns
\* whether the letter equals the solution letter case-insensitively, and
\* changes nothing else of the session (current_grid, revealed_cells,
\* revealed_all, completed).
C20_CheckCellChargesOneHint ==
    [][(cwRet'.op = "check_cell" /\ cwRet'.error = None)
       => /\ cwSessions' = [cwSessions EXCEPT ![cwRet'.session].hints_used = @ + 1]
          /\ cwRet'.value =
                PyBool(LowerChar(cwRet'.letter)
                         = LowerChar(SolutionOf(cwSessions[cwRet'.session])
                                        [cwRet'.cell[1] + 1][cwRet'.cell[2] + 1]))]_vars

\* A lowercase letter was checked against its capital in the solution, on a
\* session that holds a revealed cell.
C20_Witness ==
    /\ cwRet.op = "check_cell"
    /\ cwRet.error = None
    /\ cwRet.value = "True"
    /\ cwRet.letter = "a"
    /\ cwSessions[cwRet.session].revealed_cells # <<>>
    /\ cwSessions[cwRet.session].hints_used = 2

\* The distinct cells of a revealed_cells list.
DistinctCells(cells) == {cells[i] : i \in 1..Len(cells)}

\* 1 when the operation that just returned is a successful op on session sid.
Charged(ret, name, sid) ==
    IF ret.op = name /\ ret.error = None /\ ret.session = sid THEN 1 ELSE 0

\* C37: hints_used of a session is the number of distinct cells in
\* revealed_cells plus the successful check_cell calls plus the successful
\* reveal_all calls: a new session has 0 and no cell, and every operation
\* changes hints_used by the number of cells it adds plus 1 for a check_cell
\* or reveal_all that succeeded.  hints_used never decreases; revealed_cells
\* holds no duplicate and no black or out-of-bounds cell.
C37_HintsUsedAccounting ==
    /\ [][\A sid \in 1..Len(cwSessions') :
             IF sid \in 1..Len(cwSessions)
             THEN /\ cwSessions'[sid].hints_used - cwSessions[sid].hints_used
                       = (Cardinality(DistinctCells(cwSessions'[sid].revealed_cells))
                            - Cardinality(DistinctCells(cwSessions[sid].revealed_cells)))
                         + Charged(cwRet', "check_cell", sid)
                         + Charged(cwRet', "reveal_all", sid)
                  /\ cwSessions'[sid].hints_used >= cwSessions[sid].hints_used
             ELSE /\ cwSessions'[sid].hints_used = 0
                  /\ cwSessions'[sid].revealed_cells = <<>>]_vars
    /\ [](\A sid \in 1..Len(cwSessions) :
            \E cells \in {cwSessions[sid].revealed_cells} :
                /\ Cardinality(DistinctCells(cells)) = Len(cells)
                /\ \A i \in 1..Len(cells) :
                      ~BadCell(SolutionOf(cwSessions[sid]), <<cells[i].row, cells[i].col>>))

\* C21: reveal_all on an Active session returns the solution grid with both
\* answer maps, sets revealed_all, adds exactly one hint, stores the solution
\* as the user's grid and leaves the session not completed; a check_answers
\* call that follows it reports all_correct = true.
C21_RevealAllRevealsSolution ==
    /\ [][(cwRet'.op = "reveal_all" /\ cwRet'.error = None)
          => \E sid \in {cwRet'.session} : \E puzzle \in {cwPuzzles[cwSessions[sid].daily_puzzle_id]} :
                /\ ~cwSessions[sid].completed
                /\ cwRet'.complete_data.complete_grid = puzzle.grid_data
                /\ cwRet'.complete_data.answers_across = puzzle.answers_across
                /\ cwRet'.complete_data.answers_down = puzzle.answers_down
                /\ cwSessions' = [cwSessions EXCEPT
                                     ![sid].revealed_all = TRUE,
                                     ![sid].hints_used = @ + 1,
                                     ![sid].current_grid = [grid |-> puzzle.grid_data]]
                /\ cwPuzzles' = cwPuzzles]_vars
    /\ [][(/\ cwRet.op = "reveal_all" /\ cwRet.error = None
           /\ cwRet'.op = "check_answers" /\ cwRet'.error = None
           /\ cwRet'.session = cwRet.session)
          => cwRet'.checked.all_correct]_vars

\* Everything was revealed on a session that held a wrong grid, a revealed
\* cell and two hints.
C21_Witness ==
    /\ cwRet.op = "reveal_all"
    /\ cwRet.error = None
    /\ cwRet.complete_data.answers_down = PuzzleA.answers_down
    /\ cwSessions[cwRet.session].hints_used = 3
    /\ cwSessions[cwRet.session].revealed_cells # <<>>
    /\ cwSessions[cwRet.session].current_grid = [grid |-> PuzzleA.grid]
    /\ ~cwSessions[cwRet.session].completed

\* C22: a session is created not completed, and completed,
\* completion_time_seconds and completed_at change only in a complete_session
\* call that returns; update_session, check_answers, reveal_cell, check_cell
\* and reveal_all leave the three as they are.
C22_CompletedOnlyByComplete ==
    [][/\ \A sid \in 1..Len(cwSessions') :
            sid > Len(cwSessions) =>
                /\ ~cwSessions'[sid].completed
                /\ cwSessions'[sid].completion_time_seconds = 0
                /\ cwSessions'[sid].completed_at = None
       /\ \A sid \in 1..Len(cwSessions) :
            (\/ cwSessions'[sid].completed # cwSessions[sid].completed
             \/ cwSessions'[sid].completion_time_seconds
                   # cwSessions[sid].completion_time_seconds
             \/ cwSessions'[sid].completed_at # cwSessions[sid].completed_at)
            => /\ cwRet'.op = "complete_session"
               /\ cwRet'.error = None
               /\ cwRet'.session = sid]_vars

\* check_answers reported a fully correct grid on a session that had
\* everything revealed, and the session is still Active.
C22_Witness ==
    /\ CheckReturned
    /\ cwRet.checked.all_correct
    /\ cwSessions[cwRet.session].revealed_all
    /\ ~cwSessions[cwRet.session].completed
    /\ cwSessions[cwRet.session].completion_time_seconds = 0
    /\ cwSessions[cwRet.session].completed_at = None

\* C23: check_answers on a Completed session raises
\* SessionAlreadyCompletedError and returns no correctness result.
C23_CompletedRejectsCheckAnswers ==
    (/\ cwRet.op = "check_answers"
     /\ cwRet.session \in 1..Len(cwSessions)
     /\ cwSessions[cwRet.session].completed)
    => /\ cwRet.error = SessionAlreadyCompletedError
       /\ cwRet.checked = NoCheck

(***************************************************************************)
(* Crossword statistics (crossword/service.py:508-588): get_user_stats     *)
(* over tables that hold any short history of sessions.  ORDER BY date     *)
(* DESC leaves the order of sessions of one date to the database.          *)
(***************************************************************************)
StatPuzzles ==
    [i \in 1..Cardinality(StatDates) |-> PuzzleRow(Today - 3 + i, PuzzleA)]

\* A session left Active after a revealed cell, one completed unaided, and
\* one completed after everything was revealed.
StatCrosswordSessions ==
    UNION {{CommitRevealCell(NewCrosswordSession("u1", c, PuzzleA.grid),
                             NewCrosswordSession("u1", c, PuzzleA.grid), 0, 0, "A"),
            CommitComplete(NewCrosswordSession("u1", c, PuzzleA.grid), 95),
            CommitComplete(CommitRevealAll(NewCrosswordSession("u1", c, PuzzleA.grid),
                                           NewCrosswordSession("u1", c, PuzzleA.grid),
                                           PuzzleA.grid), 30)} :
           c \in 1..Len(StatPuzzles)}
    \cup {CommitComplete(NewCrosswordSession("other_user_456", 3, PuzzleA.grid), 30)}

\* filter(user_id == user_id, completed == True): the row ids
CompletedCrosswordsOf(u) ==
    {i \in 1..Len(cwSessions) : cwSessions[i].user_id = u /\ cwSessions[i].completed}

PuzzleDate(sid) == cwPuzzles[cwSessions[sid].daily_puzzle_id].date

\* join(CrosswordDailyPuzzle) ... order_by(CrosswordDailyPuzzle.date.desc()).all():
\* the results the query can give
CrosswordsByDateDesc(u) ==
    {order \in [1..Cardinality(CompletedCrosswordsOf(u)) -> CompletedCrosswordsOf(u)] :
        /\ \A i, j \in DOMAIN order : i # j => order[i] # order[j]
        /\ \A i, j \in DOMAIN order : i < j => PuzzleDate(order[i]) >= PuzzleDate(order[j])}

\* The loop of service.py:561-568 from the i-th session on: current_streak
RECURSIVE CurrentStreakLoop(_, _, _, _)
CurrentStreakLoop(order, i, expected_date, current_streak) ==
    IF i > Len(order) THEN current_streak
    ELSE IF PuzzleDate(order[i]) = expected_date
    THEN CurrentStreakLoop(order, i + 1, expected_date - 1, current_streak + 1)
    ELSE current_streak

\* The pass that starts a run at the first session as it does after a gap,
\* without recording it in max_streak.
MaxStreakStepFirstUncounted(st, session_date) ==
    IF st.prev_date # NoDate /\ session_date = st.prev_date + 1
    THEN [temp_streak |-> st.temp_streak + 1,
          max_streak |-> IF st.temp_streak + 1 > st.max_streak
                         THEN st.temp_streak + 1 ELSE st.max_streak,
          prev_date |-> session_date]
    ELSE [st EXCEPT !.temp_streak = 1, !.prev_date = session_date]

\* One pass of the loop of service.py:572-579
MaxStreakStep(st, session_date) ==
    IF st.prev_date = NoDate \/ session_date = st.prev_date + 1
    THEN [temp_streak |-> st.temp_streak + 1,
          max_streak |-> IF st.temp_streak + 1 > st.max_streak
                         THEN st.temp_streak + 1 ELSE st.max_streak,
          prev_date |-> session_date]
    ELSE [st EXCEPT !.temp_streak = 1, !.prev_date = session_date]

\* The loop of service.py:571-579 over reversed(sessions_by_date), from the
\* i-th session of order downwards
RECURSIVE MaxStreakLoop(_, _, _)
MaxStreakLoop(order, i, st) ==
    IF i < 1 THEN st
    ELSE MaxStreakLoop(order, i - 1, MaxStreakStep(st, PuzzleDate(order[i])))

RECURSIVE SumOver(_, _)
SumOver(ids, f) ==
    IF ids = {} THEN 0
    ELSE LET i == CHOOSE i \in ids : TRUE IN f[i] + SumOver(ids \ {i}, f)

\* sum(xs) / len(xs) if xs else None, as the fraction <<sum, len>>
Average(ids, f) == IF ids = {} THEN <<>> ELSE <<SumOver(ids, f), Cardinality(ids)>>

\* What get_user_stats returns when the second query gave the sessions in
\* this order.
CrosswordStats(u, order) ==
    LET completed == CompletedCrosswordsOf(u)
    IN  [total_completed |-> Cardinality(completed),
         average_completion_time_seconds |->
             Average({i \in completed : cwSessions[i].completion_time_seconds # 0},
                     [i \in completed |-> cwSessions[i].completion_time_seconds]),
         current_streak |-> CurrentStreakLoop(order, 1, Today, 0),
         max_streak |-> MaxStreakLoop(order, Len(order),
                            [temp_streak |-> 0, max_streak |-> 0, prev_date |-> NoDate]).max_streak,
         average_hints_used |->
             Average(completed, [i \in completed |-> cwSessions[i].hints_used]),
         puzzles_revealed |-> Cardinality({i \in completed : cwSessions[i].revealed_all})]

crossword_get_user_stats(u) ==
    /\ \E order \in CrosswordsByDateDesc(u) :
          cwRet' = [op |-> "get_user_stats", user |-> u, sessions_by_date |-> order,
                    stats |-> CrosswordStats(u, order)]
    /\ UNCHANGED <<cwPuzzles, cwSessions>>

InitCrosswordStats ==
    /\ EvalIdle
    /\ WordleIdle
    /\ ProcsIdle
    /\ cwPuzzles = StatPuzzles
    /\ cwSessions \in UNION {[1..n -> StatCrosswordSessions] : n \in 0..MaxStatSessions}
    /\ cwRet = NoCwRet

CrosswordGetUserStats ==
    /\ \E u \in ApiUsers : crossword_get_user_stats(u)
    /\ UNCHANGED <<evalVars, wordleVars, procs>>

NextCrosswordStats == CrosswordGetUserStats

SpecCrosswordStats == InitCrosswordStats /\ [][NextCrosswordStats]_vars

\* The dates on which the user completed at least one session.
CompletedDates(u) == {PuzzleDate(i) : i \in CompletedCrosswordsOf(u)}

\* C30: Crossword current_streak is the number of successive calendar dates,
\* counted back from today, on each of which the user completed at least
\* one session, however many sessions were completed on a date.
C30_CrosswordStreakCountsDates ==
    cwRet.op = "get_user_stats" =>
        cwRet.stats.current_streak =
            Cardinality({k \in 0..Cardinality(StatDates) :
                            \A j \in 0..k : Today - j \in CompletedDates(cwRet.user)})

\* The statistics of both games: the tables hold a history of one game or of
\* the other, and the statistics asked for are those of that game.
InitStats == InitWordleStats \/ InitCrosswordStats

NextStats ==
    \/ wordleChallenges # <<>> /\ GetUserStats
    \/ cwPuzzles # <<>> /\ CrosswordGetUserStats

SpecStats == InitStats /\ [][NextStats]_vars

\* C38: for every history of Completed sessions, several on one puzzle date
\* included, the statistics of both games satisfy
\* 0 <= current_streak <= max_streak <= number of completed sessions.
C38_StreaksOrdered ==
    /\ StatsReturned =>
          /\ 0 <= wordleRet.stats.current_streak
          /\ wordleRet.stats.current_streak <= wordleRet.stats.max_streak
          /\ wordleRet.stats.max_streak <= Cardinality(CompletedSessionsOf(wordleRet.user))
    /\ cwRet.op = "get_user_stats" =>
          /\ 0 <= cwRet.stats.current_streak
          /\ cwRet.stats.current_streak <= cwRet.stats.max_streak
          /\ cwRet.stats.max_streak <= Cardinality(CompletedCrosswordsOf(cwRet.user))

\* Three crosswords completed, two of them on today's puzzle and one on
\* yesterday's.
C38_Witness ==
    /\ cwRet.op = "get_user_stats"
    /\ cwRet.stats.total_completed = 3
    /\ cwRet.stats.current_streak = 1
    /\ cwRet.stats.max_streak = 2
    /\ Cardinality({i \in CompletedCrosswordsOf(cwRet.user) : PuzzleDate(i) = Today}) = 2

(***************************************************************************)
(* Concurrent get-or-create of the daily puzzles: each request runs        *)
(* get_or_create_daily_challenge (wordle/service.py:22-53) or              *)
(* ensure_daily_puzzle_exists (crossword/generator_service.py:389-433) on  *)
(* its own database session; the statements of different requests          *)
(* interleave, each statement is atomic.                                   *)
(***************************************************************************)
\* Number of requests in flight.
NumProcs == 3

IntegrityError == "IntegrityError"

IdleProc == [game |-> None, date |-> 0, pc |-> "idle", data |-> NoPuzzle,
             result |-> 0, row |-> None, error |-> None]

\* The date column is declared unique=True: an INSERT of a second row for
\* the date fails.
UniqueViolationNever(table, d) == FALSE

UniqueViolation(table, d) == \E i \in 1..Len(table) : table[i].date = d

\* A row as the caller holds it; the word is the whole content of a challenge.
WordleRow(table, id) == [id |-> id, date |-> table[id].date, content |-> table[id].word]

CrosswordRow(table, id) ==
    [id |-> id, date |-> table[id].date,
     content |-> [grid |-> table[id].grid_data,
                  clues_across |-> table[id].clues_across,
                  clues_down |-> table[id].clues_down,
                  answers_across |-> table[id].answers_across,
                  answers_down |-> table[id].answers_down]]

StoredRow(game, id) ==
    IF game = "wordle" THEN WordleRow(wordleChallenges, id) ELSE CrosswordRow(cwPuzzles, id)

InitDaily ==
    /\ EvalIdle
    /\ WordleIdle
    /\ CrosswordIdle
    /\ procs = [p \in 1..NumProcs |-> IdleProc]

\* challenge = db.query(...).first(); if challenge: return challenge
WordleLookup(p, d) ==
    /\ procs[p].pc = "idle"
    /\ procs' = [procs EXCEPT ![p] =
          IF ChallengeForDate(wordleChallenges, d) # 0
          THEN [IdleProc EXCEPT !.game = "wordle", !.date = d, !.pc = "returned",
                                !.result = ChallengeForDate(wordleChallenges, d),
                                !.row = WordleRow(wordleChallenges,
                                                  ChallengeForDate(wordleChallenges, d))]
          ELSE [IdleProc EXCEPT !.game = "wordle", !.date = d, !.pc = "missed"]]
    /\ UNCHANGED <<evalVars, wordleVars, cwVars>>

\* db.add(challenge); db.commit(); db.refresh(challenge); return challenge
WordleInsert(p) ==
    /\ procs[p].pc = "missed"
    /\ procs[p].game = "wordle"
    /\ IF UniqueViolation(wordleChallenges, procs[p].date)
       THEN /\ procs' = [procs EXCEPT ![p].pc = "raised", ![p].error = IntegrityError]
            /\ UNCHANGED wordleChallenges
       ELSE /\ wordleChallenges' = Append(wordleChallenges,
                    [date |-> procs[p].date, word |-> get_daily_word(procs[p].date)])
            /\ procs' = [procs EXCEPT ![p].pc = "returned",
                                      ![p].result = Len(wordleChallenges'),
                                      ![p].row = WordleRow(wordleChallenges',
                                                           Len(wordleChallenges'))]
    /\ UNCHANGED <<evalVars, wordleSessions, wordleRet, cwVars>>

\* existing_puzzle = db.query(...).first(); if existing_puzzle: return it
CrosswordLookup(p, d) ==
    /\ procs[p].pc = "idle"
    /\ procs' = [procs EXCEPT ![p] =
          IF PuzzleForDate(cwPuzzles, d) # 0
          THEN [IdleProc EXCEPT !.game = "crossword", !.date = d, !.pc = "returned",
                                !.result = PuzzleForDate(cwPuzzles, d),
                                !.row = CrosswordRow(cwPuzzles, PuzzleForDate(cwPuzzles, d))]
          ELSE [IdleProc EXCEPT !.game = "crossword", !.date = d, !.pc = "missed"]]
    /\ UNCHANGED <<evalVars, wordleVars, cwVars>>

\* puzzle_data = await generate_crossword_with_fallback(puzzle_date);
\* if puzzle_data is None: return None
CrosswordGenerate(p) ==
    /\ procs[p].pc = "missed"
    /\ procs[p].game = "crossword"
    /\ \E data \in {PuzzleA, PuzzleB, NoPuzzle} :
          procs' = [procs EXCEPT ![p].data = data,
                                 ![p].pc = IF data = NoPuzzle THEN "returned" ELSE "generated"]
    /\ UNCHANGED <<evalVars, wordleVars, cwVars>>

\* db.add(new_puzzle); db.commit(); db.refresh(new_puzzle); return new_puzzle
CrosswordInsert(p) ==
    /\ procs[p].pc = "generated"
    /\ IF UniqueViolation(cwPuzzles, procs[p].date)
       THEN /\ procs' = [procs EXCEPT ![p].pc = "raised", ![p].error = IntegrityError]
            /\ UNCHANGED cwPuzzles
       ELSE /\ cwPuzzles' = Append(cwPuzzles, PuzzleRow(procs[p].date, procs[p].data))
            /\ procs' = [procs EXCEPT ![p].pc = "returned",
                                      ![p].result = Len(cwPuzzles'),
                                      ![p].row = CrosswordRow(cwPuzzles', Len(cwPuzzles'))]
    /\ UNCHANGED <<evalVars, wordleVars, cwSessions, cwRet>>

NextDaily ==
    \/ \E p \in 1..NumProcs, d \in Dates : WordleLookup(p, d)
    \/ \E p \in 1..NumProcs : WordleInsert(p)
    \/ \E p \in 1..NumProcs, d \in Dates : CrosswordLookup(p, d)
    \/ \E p \in 1..NumProcs : CrosswordGenerate(p)
    \/ \E p \in 1..NumProcs : CrosswordInsert(p)

SpecDaily == InitDaily /\ [][NextDaily]_vars

RowsForDate(table, d) == {i \in 1..Len(table) : table[i].date = d}

\* The call of request p returned a puzzle row.
GotRow(p) == procs[p].pc = "returned" /\ procs[p].result # 0

\* C9: under every interleaving of get-or-create calls at most one Wordle
\* challenge row and one Crossword puzzle row exist per date, and every call
\* that returns a row returns that row: same id, same content.
C9_OneRowPerDate ==
    /\ \A d \in Dates :
          /\ Cardinality(RowsForDate(wordleChallenges, d)) <= 1
          /\ Cardinality(RowsForDate(cwPuzzles, d)) <= 1
    /\ \A p \in DOMAIN procs :
          GotRow(p) =>
              /\ procs[p].row.date = procs[p].date
              /\ procs[p].row = StoredRow(procs[p].game, procs[p].result)
    /\ \A p, q \in DOMAIN procs :
          (GotRow(p) /\ GotRow(q) /\ procs[p].game = procs[q].game
              /\ procs[p].date = procs[q].date)
          => procs[p].row = procs[q].row

\* Two crossword requests missed for the same date and generated different
\* content; one row is stored and a request holds it.
C9_Witness ==
    \E p, q \in DOMAIN procs :
        /\ p # q
        /\ procs[p].game = "crossword" /\ procs[q].game = "crossword"
        /\ procs[p].date = procs[q].date
        /\ procs[p].data # NoPuzzle /\ procs[q].data # NoPuzzle
        /\ procs[p].data # procs[q].data
        /\ GotRow(p)
        /\ procs[q].pc # "idle"
        /\ procs[p].row.content = procs[p].data

\* C10: a get-or-create call whose insert hits the uniqueness violation of
\* the date catches it and re-reads the existing row; no call propagates the
\* error to its caller.
C10_RaceLoserReturnsRow ==
    \A p \in DOMAIN procs : procs[p].pc # "raised"

(***************************************************************************)
(* Concurrent submit_guess calls (wordle/service.py:111-166): every request *)
(* works on its own database session.  It loads the session row with a     *)
(* plain SELECT (no FOR UPDATE, no version column), computes the new       *)
(* column values from the loaded object and writes them with db.commit().  *)
(***************************************************************************)
IdleGuess == [pc |-> "idle", session |-> 0, raw |-> <<>>, guess |-> <<>>,
              loaded |-> NewSession(None, 0), error |-> None,
              attempts_used |-> 0, game_over |-> FALSE]

\* What the racing callers submit.
RaceGuessInputs == {Added, Upper(Ebbed), Ebbed, NotAWord}

\* One user has started the challenge of 2024-01-15 and holds session 1.
InitGuessRace ==
    /\ EvalIdle
    /\ CrosswordIdle
    /\ wordleChallenges = ChallengesAfterGetOrCreate(<<>>, 738900)
    /\ wordleSessions = <<NewSession("u1", 1)>>
    /\ wordleRet = NoRet
    /\ procs = [p \in 1..NumProcs |-> IdleGuess]

\* service.py:112-135: the queries and the checks, up to the feedback
GuessLoad(p, sid, raw) ==
    /\ procs[p].pc = "idle"
    /\ procs' = [procs EXCEPT ![p] =
          IF sid \notin 1..Len(wordleSessions)
          THEN [IdleGuess EXCEPT !.pc = "raised", !.session = sid, !.raw = raw,
                                 !.error = SessionNotFound]
          ELSE IF IsCompleted(wordleSessions[sid])
          THEN [IdleGuess EXCEPT !.pc = "raised", !.session = sid, !.raw = raw,
                                 !.error = AlreadyCompleted]
          ELSE IF ~is_valid_word(Lower(raw))
          THEN [IdleGuess EXCEPT !.pc = "raised", !.session = sid, !.raw = raw,
                                 !.error = InvalidWord]
          ELSE [IdleGuess EXCEPT !.pc = "loaded", !.session = sid, !.raw = raw,
                                 !.guess = Lower(raw), !.loaded = wordleSessions[sid]]]
    /\ UNCHANGED <<evalVars, wordleVars, cwVars>>

\* service.py:138-177: feedback, assignments, db.commit(), db.refresh(session)
\* and the GuessResult built from the refreshed object
GuessCommit(p) ==
    /\ procs[p].pc = "loaded"
    /\ \E session \in {procs[p].loaded}, sid \in {procs[p].session} :
       \E feedback \in {check_guess(procs[p].guess,
                                    wordleChallenges[session.daily_challenge_id].word)} :
       \E out \in {Outcome(AllCorrect(feedback), session.attempts_used + 1)} :
          /\ wordleSessions' = [wordleSessions EXCEPT ![sid] =
                CommitGuess(wordleSessions[sid], session, procs[p].guess, feedback, out)]
          /\ procs' = [procs EXCEPT ![p].pc = "returned",
                                    ![p].attempts_used = wordleSessions'[sid].attempts_used,
                                    ![p].game_over = out.game_over]
    /\ UNCHANGED <<evalVars, wordleChallenges, wordleRet, cwVars>>

NextGuessRace ==
    \/ \E p \in 1..NumProcs, sid \in 1..2, raw \in RaceGuessInputs : GuessLoad(p, sid, raw)
    \/ \E p \in 1..NumProcs : GuessCommit(p)

SpecGuessRace == InitGuessRace /\ [][NextGuessRace]_vars

\* The requests on session sid that returned feedback.
Scored(sid) == {p \in DOMAIN procs : procs[p].pc = "returned" /\ procs[p].session = sid}

\* C11: when concurrent submit_guess calls on one Active session all return
\* successfully, the session reflects every one of them: attempts_used has
\* grown by the number of calls (from 0 here), and every returned guess and
\* its feedback row are in the stored lists.
C11_NoLostGuess ==
    \A sid \in 1..Len(wordleSessions) :
        /\ wordleSessions[sid].attempts_used = Cardinality(Scored(sid))
        /\ Len(wordleSessions[sid].guesses) = Cardinality(Scored(sid))
        /\ Len(OrEmpty(wordleSessions[sid].guess_results)) = Cardinality(Scored(sid))
        /\ \A p \in Scored(sid) : Contains(wordleSessions[sid].guesses, procs[p].guess)

\* The same race on a session that already holds five scored guesses, all
\* wrong, made one after the other.
GuessesBeforeRace == [i \in 1..(MaxAttempts - 1) |-> OtherWord(get_daily_word(738900))]

InitLastGuessRace ==
    /\ EvalIdle
    /\ CrosswordIdle
    /\ wordleChallenges = ChallengesAfterGetOrCreate(<<>>, 738900)
    /\ wordleSessions = <<PlayAll(NewSession("u1", 1), GuessesBeforeRace,
                                  get_daily_word(738900))>>
    /\ wordleRet = NoRet
    /\ procs = [p \in 1..NumProcs |-> IdleGuess]

SpecLastGuessRace == InitLastGuessRace /\ [][NextGuessRace]_vars

\* C34: under any interleaving of concurrent submit_guess calls on one
\* session, the guesses scored on it (the five made before and the calls
\* that returned feedback) are never more than 6, and no call is scored once
\* a call that ended the game has committed (the stored session is Completed).
C34_AtMostSixGuessesScored ==
    /\ [](Len(GuessesBeforeRace) + Cardinality(Scored(1)) <= MaxAttempts)
    /\ [][\A p \in DOMAIN procs :
             (procs[p].pc = "loaded" /\ procs'[p].pc = "returned")
                => ~IsCompleted(wordleSessions[procs[p].session])]_vars

(***************************************************************************)
(* Concurrent requests on one crossword session (crossword/router.py and   *)
(* crossword/service.py).  A request loads the session row once, in the    *)
(* router's ownership query (the service's query returns the same object   *)
(* from the request's identity map), tests session.completed on that       *)
(* object, assigns and commits.  No query locks the row.                   *)
(***************************************************************************)
IdleRequest == [pc |-> "idle", op |-> None, session |-> 0,
                loaded |-> NewCrosswordSession(None, 0, <<>>),
                grid |-> [grid |-> <<>>], cell |-> <<>>, letter |-> "", time |-> 0,
                error |-> None]

\* The requests in flight: operation and arguments.
RaceRequests ==
    {[IdleRequest EXCEPT !.op = "update_session",
                         !.grid = [grid |-> << <<"a", "b">>, <<".", "c">> >>]],
     [IdleRequest EXCEPT !.op = "complete_session", !.time = 30],
     [IdleRequest EXCEPT !.op = "reveal_all"]}
      \cup {[IdleRequest EXCEPT !.op = "reveal_cell", !.cell = cell] :
                cell \in {<<0, 0>>, <<0, 1>>, <<1, 0>>}}
      \cup {[IdleRequest EXCEPT !.op = "check_cell", !.cell = cell, !.letter = "a"] :
                cell \in {<<0, 0>>, <<1, 0>>}}

\* The owner has started the puzzle of 2024-01-15 and holds session 1.
InitCrosswordRace ==
    /\ EvalIdle
    /\ WordleIdle
    /\ cwPuzzles = PuzzlesAfterEnsure(<<>>, 738900, PuzzleA)
    /\ cwSessions = <<NewCrosswordSession("u1", 1, PuzzleA.grid)>>
    /\ cwRet = NoCwRet
    /\ procs = [p \in 1..NumProcs |-> IdleRequest]

\* The error a request raises before it assigns anything, or None.
RequestError(req, sid) ==
    IF Rejection(sid) # None THEN Rejection(sid)
    ELSE IF req.op \in {"reveal_cell", "check_cell"}
    THEN CellError(SolutionOf(cwSessions[sid]), req.cell[1], req.cell[2])
    ELSE None

\* The queries and the checks of a request
RequestLoad(p, req, sid) ==
    /\ procs[p].pc = "idle"
    /\ procs' = [procs EXCEPT ![p] =
          IF RequestError(req, sid) # None
          THEN [req EXCEPT !.pc = "raised", !.session = sid,
                           !.error = RequestError(req, sid)]
          ELSE [req EXCEPT !.pc = "loaded", !.session = sid, !.loaded = cwSessions[sid]]]
    /\ UNCHANGED <<evalVars, wordleVars, cwVars>>

\* The stored row after the db.commit() of request req
CommitRequest(row, req) ==
    CASE req.op = "update_session" -> CommitUpdate(row, req.loaded, req.grid)
      [] req.op = "complete_session" -> CommitComplete(row, req.time)
      [] req.op = "reveal_cell" ->
            CommitRevealCell(row, req.loaded, req.cell[1], req.cell[2],
                             SolutionOf(req.loaded)[req.cell[1] + 1][req.cell[2] + 1])
      [] req.op = "check_cell" -> CommitCheckCell(row, req.loaded)
      [] OTHER -> CommitRevealAll(row, req.loaded, SolutionOf(req.loaded))

\* The assignments and db.commit() of a request
RequestCommit(p) ==
    /\ procs[p].pc = "loaded"
    /\ cwSessions' = [cwSessions EXCEPT ![procs[p].session] =
                         CommitRequest(cwSessions[procs[p].session], procs[p])]
    /\ procs' = [procs EXCEPT ![p].pc = "returned"]
    /\ UNCHANGED <<evalVars, wordleVars, cwPuzzles, cwRet>>

NextCrosswordRace ==
    \/ \E p \in 1..NumProcs, req \in RaceRequests, sid \in 1..2 : RequestLoad(p, req, sid)
    \/ \E p \in 1..NumProcs : RequestCommit(p)

SpecCrosswordRace == InitCrosswordRace /\ [][NextCrosswordRace]_vars

\* C12: once complete_session has committed completed = true, no request
\* changes current_grid, hints_used, revealed_cells or revealed_all of the
\* session, not even one that loaded the session while it was Active.
C12_NoMutationAfterCompleted ==
    [][\A sid \in 1..Len(cwSessions) :
          cwSessions[sid].completed =>
              /\ cwSessions'[sid].current_grid = cwSessions[sid].current_grid
              /\ cwSessions'[sid].hints_used = cwSessions[sid].hints_used
              /\ cwSessions'[sid].revealed_cells = cwSessions[sid].revealed_cells
              /\ cwSessions'[sid].revealed_all = cwSessions[sid].revealed_all]_vars

(***************************************************************************)
(* get_daily_word in independent processes (word_service.py:44-71,         *)
(* 128-138): every process has its own interpreter state and builds its    *)
(* own WordService; nothing is shared between them.                        *)
(***************************************************************************)
\* Seeds of the string hash the processes may have started with.
HashSeeds == {0, 1}

NotCalled == <<>>

\* returned[d]: what the process's calls of get_daily_word(d) returned.
NewProcess(seed) ==
    [hash_seed |-> seed, service |-> NoService, returned |-> [d \in Dates |-> NotCalled]]

InitDailyWord ==
    /\ EvalIdle
    /\ WordleIdle
    /\ CrosswordIdle
    /\ \E seeds \in [1..NumProcs -> HashSeeds] :
          procs = [p \in 1..NumProcs |-> NewProcess(seeds[p])]

\* get_word_service(): the first call in a process builds the singleton
GetWordService(p) ==
    /\ procs[p].service = NoService
    /\ procs' = [procs EXCEPT ![p].service = WordService]
    /\ UNCHANGED <<evalVars, wordleVars, cwVars>>

\* ws.get_daily_word(d), any number of times
GetDailyWord(p, d) ==
    /\ procs[p].service # NoService
    /\ procs' = [procs EXCEPT ![p].returned[d] =
                    get_daily_word_in(Process(procs[p].hash_seed, procs[p].service), d)]
    /\ UNCHANGED <<evalVars, wordleVars, cwVars>>

NextDailyWord ==
    \/ \E p \in 1..NumProcs : GetWordService(p)
    \/ \E p \in 1..NumProcs, d \in Dates : GetDailyWord(p, d)

SpecDailyWord == InitDailyWord /\ [][NextDailyWord]_vars

AnswerPool == {Answers[i] : i \in 1..Len(Answers)}

WordCalendar == 738899..738906

InitWordCalendar ==
    /\ EvalIdle
    /\ WordleIdle
    /\ CrosswordIdle
    /\ procs = [p \in {1} |->
                  [hash_seed |-> 0, service |-> NoService,
                   returned |-> [d \in WordCalendar |-> NotCalled]]]

NextWordCalendar ==
    \/ GetWordService(1)
    \/ \E d \in WordCalendar : GetDailyWord(1, d)

SpecWordCalendar == InitWordCalendar /\ [][NextWordCalendar]_vars

RetryCeilings == {<<>>, <<0 - 1>>, <<0>>, <<1>>, <<2>>, <<4>>}

InitGenerator ==
    /\ EvalIdle
    /\ WordleIdle
    /\ CrosswordIdle
    /\ procs = <<IdleGenerator>>

CallLlmForCrossword ==
    /\ procs[1].pc = "idle"
    /\ \E max_retries \in RetryCeilings :
          procs' = <<call_llm_for_crossword(procs[1], max_retries)>>
    /\ UNCHANGED <<evalVars, wordleVars, cwVars>>

InvokeModel ==
    /\ procs[1].pc = "invoke_model"
    /\ \E outcome \in ProviderOutcomes : procs' = <<InvokeStep(procs[1], outcome)>>
    /\ UNCHANGED <<evalVars, wordleVars, cwVars>>

\* await asyncio.sleep(2 ** attempt); continue
Sleep ==
    /\ procs[1].pc = "sleep"
    /\ procs' = <<SleepStep(procs[1])>>
    /\ UNCHANGED <<evalVars, wordleVars, cwVars>>

NextGenerator ==
    \/ CallLlmForCrossword
    \/ InvokeModel
    \/ Sleep

SpecGenerator ==
    /\ InitGenerator
    /\ [][NextGenerator]_vars
    /\ WF_vars(InvokeModel)
    /\ WF_vars(Sleep)

\* Number of provider calls in the log.
ProviderCalls(log) == Cardinality({i \in 1..Len(log) : log[i].event = "invoke_model"})

GeneratorEnded == procs[1].pc \in {"returned", "raised"}

\* The provider's answer has every field, a grid of capitals and black cells
\* of at most 5 x 5, three words each way, and a clue for every answer.
IsPuzzle(data) ==
    /\ DOMAIN data = RequiredFields
    /\ Len(data.grid) \in 1..5
    /\ \A i \in 1..Len(data.grid) : Len(data.grid[i]) \in 0..5
    /\ \A i \in 1..Len(data.grid) : \A j \in 1..Len(data.grid[i]) :
          \E k \in 1..Len(UpperAlphabet) : data.grid[i][j] \in {".", UpperAlphabet[k]}
    /\ \E a, b, c \in DOMAIN data.answers_across : a # b /\ b # c /\ a # c
    /\ \E a, b, c \in DOMAIN data.answers_down : a # b /\ b # c /\ a # c
    /\ \A num \in DOMAIN data.answers_across :
          num \in DOMAIN data.clues_across /\ data.answers_across[num] # ""
    /\ \A num \in DOMAIN data.answers_down :
          num \in DOMAIN data.clues_down /\ data.answers_down[num] # ""

\* C24: a started call of call_llm_for_crossword ends, whatever the provider
\* answers; it calls the provider at most max_retries times, and it ends by
\* returning the provider's last answer, which is a valid puzzle, or by
\* raising CrosswordGenerationError.
C24_GenerationTerminates ==
    /\ [](ProviderCalls(procs[1].log) <= IF procs[1].max_retries > 0
                                         THEN procs[1].max_retries ELSE 0)
    /\ [](procs[1].pc = "returned" =>
            /\ procs[1].error = None
            /\ IsPuzzle(procs[1].puzzle_data)
            /\ procs[1].log[Len(procs[1].log)] = Invoked(Provided(procs[1].puzzle_data)))
    /\ [](procs[1].pc = "raised" =>
            /\ procs[1].error = CrosswordGenerationError
            /\ procs[1].puzzle_data = NoPuzzle)
    /\ (procs[1].pc \in {"invoke_model", "sleep"}) ~> GeneratorEnded

\* Four provider calls failed in four ways and the call gave up.
C24_Witness ==
    /\ procs[1].pc = "raised"
    /\ procs[1].max_retries = 4
    /\ ProviderCalls(procs[1].log) = 4
    /\ \E i, j, k \in 1..Len(procs[1].log) :
          /\ procs[1].log[i].outcome = Provided(PuzzleTwoAcross)
          /\ procs[1].log[j].outcome = Failed("JSONDecodeError", None)
          /\ procs[1].log[k].outcome = Failed("ClientError", "ThrottlingException")

\* The provider call ended with a ClientError that is not throttling,
\* service-unavailable or model-timeout.
NonRetryable(entry) ==
    /\ entry.event = "invoke_model"
    /\ entry.outcome.kind = "ClientError"
    /\ entry.outcome.code \notin
          {"ThrottlingException", "ServiceUnavailableException", "ModelTimeoutException"}

\* C39: a provider error that is not throttling, service-unavailable or
\* model-timeout ends call_llm_for_crossword at once: it is the last entry of
\* the call's log for ever (no provider call and no sleep follows it) and the
\* call has raised CrosswordGenerationError, whatever attempts remain.
C39_NonRetryableErrorEndsCall ==
    \A i \in 1..Len(procs[1].log) :
        NonRetryable(procs[1].log[i]) =>
            /\ i = Len(procs[1].log)
            /\ procs[1].pc = "raised"
            /\ procs[1].error = CrosswordGenerationError

\* Access was denied at the second of four attempts, after a throttled first.
C39_Witness ==
    /\ procs[1].pc = "raised"
    /\ procs[1].max_retries = 4
    /\ ProviderCalls(procs[1].log) = 2
    /\ procs[1].log[1] = Invoked(Failed("ClientError", "ThrottlingException"))
    /\ procs[1].log[Len(procs[1].log)] = Invoked(Failed("ClientError", "AccessDeniedException"))

\* C25: a provider call that follows failed call n comes right after a sleep
\* of 2^(n-1) seconds, whatever made call n fail, and the call never ends
\* on a sleep.
C25_BackoffBeforeEveryRetry ==
    /\ [][(/\ procs[1].pc = "invoke_model"
           /\ procs'[1].log # procs[1].log
           /\ procs[1].log # <<>>)
          => procs[1].log[Len(procs[1].log)]
                = Slept(2 ^ (ProviderCalls(procs[1].log) - 1))]_vars
    /\ [](GeneratorEnded /\ procs[1].log # <<>>
            => procs[1].log[Len(procs[1].log)].event # "sleep")

(***************************************************************************)
(* The calls that ask for a Crossword puzzle, one at a time, with a        *)
(* generator that may fail (SpecSupply), and the daily puzzles of both     *)
(* games under every operation of the services (SpecStore).  procs holds   *)
(* what the last call that asked for a Crossword puzzle met: the date, how *)
(* the generator ended when the lookup missed, and the row the call got.   *)
(***************************************************************************)
StoreDates == {738900, 738901}

\* How a call of call_llm_for_crossword can have ended: with either puzzle,
\* or with CrosswordGenerationError.
GeneratorEnds ==
    {AfterInvoke(call_llm_for_crossword(IdleGenerator, <<1>>), outcome) :
        outcome \in {Provided(PuzzleA), Provided(PuzzleB),
                     Failed("ClientError", "AccessDeniedException")}}

\* The lookup of ensure_daily_puzzle_exists missed and the generator ran:
\* "data" or "None" for what generate_crossword_with_fallback returned.
Generated(table, d, g) ==
    IF PuzzleForDate(table, d) # 0 THEN "not called"
    ELSE IF generate_crossword_with_fallback(g) = NoPuzzle THEN "None"
    ELSE "data"

PuzzleRequest(d, generated, puzzle) ==
    <<[date |-> d, generated |-> generated, puzzle |-> puzzle]>>

\* generator_service.py:389-433; the row it returns is procs'[1].puzzle, 0 for None
ensure_daily_puzzle_exists(d, g) ==
    /\ cwPuzzles' = PuzzlesAfterEnsure(cwPuzzles, d, generate_crossword_with_fallback(g))
    /\ procs' = PuzzleRequest(d, Generated(cwPuzzles, d, g), PuzzleForDate(cwPuzzles', d))

\* crossword/service.py:39-58
get_or_create_daily_puzzle(d, g) ==
    /\ ensure_daily_puzzle_exists(d, g)
    /\ cwRet' = IF procs'[1].puzzle = 0
                THEN CwRaised("get_or_create_daily_puzzle", 0, PuzzleNotFoundError)
                ELSE CwReturned("get_or_create_daily_puzzle", 0, None)
    /\ UNCHANGED cwSessions

InitSupply ==
    /\ EvalIdle
    /\ WordleIdle
    /\ CrosswordIdle
    /\ ProcsIdle

EnsureDailyPuzzleExists(dates, ends) ==
    /\ \E d \in dates, g \in ends :
          /\ ensure_daily_puzzle_exists(d, g)
          /\ cwRet' = CwReturned("ensure_daily_puzzle_exists", 0, None)
    /\ UNCHANGED <<evalVars, wordleVars, cwSessions>>

GetOrCreateDailyPuzzle(dates, ends) ==
    /\ \E d \in dates, g \in ends : get_or_create_daily_puzzle(d, g)
    /\ UNCHANGED <<evalVars, wordleVars>>

StartWithGenerator(dates, ends) ==
    /\ \E u \in Users, d \in dates, g \in ends :
          /\ crossword_start_daily_challenge(u, d, generate_crossword_with_fallback(g))
          /\ procs' = PuzzleRequest(d, Generated(cwPuzzles, d, g),
                                    PuzzleForDate(cwPuzzles', d))
    /\ UNCHANGED <<evalVars, wordleVars>>

NextSupply ==
    \/ EnsureDailyPuzzleExists(StoreDates, GeneratorEnds)
    \/ GetOrCreateDailyPuzzle(StoreDates, GeneratorEnds)
    \/ StartWithGenerator(StoreDates, GeneratorEnds)

SpecSupply == InitSupply /\ [][NextSupply]_vars

\* The generator of SpecStore returns one puzzle, or fails.
StoreGeneratorEnds == {g \in GeneratorEnds : generate_crossword_with_fallback(g) # PuzzleB}

InitStore ==
    /\ EvalIdle
    /\ WordleIdle
    /\ CrosswordIdle
    /\ ProcsIdle

\* Each operation on a session, with one input each.
StoreCrosswordOperation ==
    /\ \E sid \in CrosswordSessionIds :
          \/ update_session(sid, [grid |-> << <<"a", "b">>, <<"d", "c">> >>])
          \/ check_answers(sid)
          \/ reveal_cell(sid, 0, 1)
          \/ check_cell(sid, 0, 0, "a")
          \/ reveal_all(sid)
          \/ complete_session(sid, 30)
    /\ UNCHANGED <<evalVars, wordleVars, procs>>

\* GET /api/wordle/daily (wordle/router.py:44)
StoreWordleGetOrCreate ==
    /\ \E d \in Dates :
          wordleChallenges' = ChallengesAfterGetOrCreate(wordleChallenges, d)
    /\ UNCHANGED <<evalVars, cwVars, procs, wordleSessions, wordleRet>>

StoreWordleStart ==
    /\ wordleSessions = <<>>
    /\ \E u \in Users, d \in Dates : start_daily_challenge(u, d)
    /\ UNCHANGED <<evalVars, cwVars, procs>>

StoreWordleGuess ==
    /\ \E sid \in 1..Len(wordleSessions) : submit_guess(sid, Ebbed)
    /\ UNCHANGED <<evalVars, cwVars, procs>>

NextStore ==
    \/ EnsureDailyPuzzleExists(CrosswordDates, StoreGeneratorEnds)
    \/ GetOrCreateDailyPuzzle(CrosswordDates, StoreGeneratorEnds)
    \/ StartWithGenerator(CrosswordDates, StoreGeneratorEnds)
    \/ StoreCrosswordOperation
    \/ StoreWordleGetOrCreate
    \/ StoreWordleStart
    \/ StoreWordleGuess

SpecStore == InitStore /\ [][NextStore]_vars

\* What the provider may answer in the calls that fill the table: the
\* outcomes of ProviderOutcomes and a second valid puzzle.
SupplyOutcomes == ProviderOutcomes \cup {Provided(PuzzleB)}

\* How the call of call_llm_for_crossword that stands at g can end, over
\* every sequence of provider outcomes.
RECURSIVE GeneratorRuns(_)
GeneratorRuns(g) ==
    IF g.pc \in {"returned", "raised"} THEN {g}
    ELSE IF g.pc = "sleep" THEN GeneratorRuns(SleepStep(g))
    ELSE UNION {GeneratorRuns(InvokeStep(g, outcome)) : outcome \in SupplyOutcomes}

\* generate_crossword_with_fallback calls call_llm_for_crossword() with the
\* default max_retries (generator_service.py:378).
FallbackRuns == GeneratorRuns(call_llm_for_crossword(IdleGenerator, <<>>))

\* The calls that ask for a puzzle, with a provider that may answer anything
\* at every attempt.
NextProvided ==
    \/ EnsureDailyPuzzleExists(StoreDates, FallbackRuns)
    \/ GetOrCreateDailyPuzzle(StoreDates, FallbackRuns)
    \/ StartWithGenerator(StoreDates, FallbackRuns)

SpecProvided == InitSupply /\ [][NextProvided]_vars

\* The content of a stored puzzle, as the dict it was built from.
RowData(row) ==
    [grid |-> row.grid_data,
     clues_across |-> row.clues_across, clues_down |-> row.clues_down,
     answers_across |-> row.answers_across, answers_down |-> row.answers_down]

\* C40: every stored CrosswordDailyPuzzle holds content that passes the
\* validation: a grid of 1 to 5 rows of at most 5 cells, each a capital
\* letter or ".", at least 3 answers across and 3 down, none empty and each
\* with a clue; no answer of the provider that fails it is ever stored.
C40_OnlyValidatedPuzzlesStored ==
    \A i \in 1..Len(cwPuzzles) :
        /\ IsPuzzle(RowData(cwPuzzles[i]))
        /\ RowData(cwPuzzles[i]) \notin {PuzzleTwoAcross, PuzzleLowercase}

\* Both puzzles are stored, and a session was started on the second.
C40_Witness ==
    /\ Len(cwPuzzles) = 2
    /\ RowData(cwPuzzles[1]) = PuzzleB
    /\ RowData(cwPuzzles[2]) = PuzzleA
    /\ procs # <<>>
    /\ procs[1].generated = "data"
    /\ cwSessions # <<>>

PuzzleCalls == {"ensure_daily_puzzle_exists", "get_or_create_daily_puzzle",
                "start_daily_challenge"}

\* The last Crossword call asked for a puzzle and its generator run failed.
GenerationFailed(ret, request) ==
    /\ ret.op \in PuzzleCalls
    /\ request # <<>>
    /\ request[1].generated = "None"

\* C26: when generation fails, ensure_daily_puzzle_exists returns None without
\* raising, get_or_create_daily_puzzle and start_daily_challenge raise
\* PuzzleNotFoundError, the call stores no puzzle row and no session, the
\* date stays without a row, and the next call for the date runs the
\* generator again.
C26_GenerationFailureLeavesNothing ==
    /\ [](cwRet.op = "ensure_daily_puzzle_exists" => cwRet.error = None)
    /\ [](GenerationFailed(cwRet, procs) =>
            /\ procs[1].puzzle = 0
            /\ PuzzleForDate(cwPuzzles, procs[1].date) = 0
            /\ cwRet.op # "ensure_daily_puzzle_exists" => cwRet.error = PuzzleNotFoundError)
    /\ [][GenerationFailed(cwRet', procs') =>
            /\ cwPuzzles' = cwPuzzles
            /\ cwSessions' = cwSessions]_vars
    /\ [][(/\ GenerationFailed(cwRet, procs)
           /\ cwRet'.op \in PuzzleCalls
           /\ procs'[1].date = procs[1].date)
          => procs'[1].generated # "not called"]_vars

\* start_daily_challenge failed for a date that ensure_daily_puzzle_exists
\* had failed for before, while the other date has its puzzle.
C26_Witness ==
    /\ cwRet.op = "start_daily_challenge"
    /\ cwRet.error = PuzzleNotFoundError
    /\ GenerationFailed(cwRet, procs)
    /\ cwSessions = <<>>
    /\ Len(cwPuzzles) = 1
    /\ cwPuzzles[1].date # procs[1].date

\* C27: a stored Wordle challenge and a stored Crossword puzzle keep their
\* place and every column under every operation of either game.
C27_PuzzlesImmutable ==
    [][/\ Len(wordleChallenges') >= Len(wordleChallenges)
       /\ \A i \in 1..Len(wordleChallenges) : wordleChallenges'[i] = wordleChallenges[i]
       /\ Len(cwPuzzles') >= Len(cwPuzzles)
       /\ \A i \in 1..Len(cwPuzzles) : cwPuzzles'[i] = cwPuzzles[i]]_vars

\* Both tables hold a row, a second Wordle challenge was stored after the
\* first was played, a Wordle session has a guess, and the Crossword
\* session was completed after a cell and then everything were revealed.
C27_Witness ==
    /\ Len(wordleChallenges) = 2
    /\ \E sid \in 1..Len(wordleSessions) : wordleSessions[sid].attempts_used > 0
    /\ cwPuzzles # <<>>
    /\ \E sid \in 1..Len(cwSessions) :
          /\ cwSessions[sid].completed
          /\ cwSessions[sid].revealed_all
          /\ cwSessions[sid].revealed_cells # <<>>
          /\ cwSessions[sid].current_grid.grid = cwPuzzles[cwSessions[sid].daily_puzzle_id].grid_data

(***************************************************************************)
(* The letter-feedback engine as a pure function: every pair of typed      *)
(* words is an input, Evaluate applies check_guess to it.                  *)
(***************************************************************************)
Words == [1..WordLen -> Letters]

InitEval ==
    /\ \E g \in Words, a \in Words, m \in TypedPairs :
          /\ evalGuess = Typed(g, m[1])
          /\ evalAnswer = Typed(a, m[2])
    /\ evalResult = <<>>
    /\ WordleIdle
    /\ CrosswordIdle
    /\ ProcsIdle

Evaluate ==
    /\ evalResult = <<>>
    /\ evalResult' = check_guess(evalGuess, evalAnswer)
    /\ UNCHANGED <<evalGuess, evalAnswer, wordleVars, cwVars, procs>>

NextEval == Evaluate

SpecEval == InitEval /\ [][NextEval]_vars

Evaluated == evalResult # <<>>

Marked(result, c) ==
    {i \in 1..WordLen : result[i].letter = c /\ result[i].status \in {CORRECT, PRESENT}}

Occurrences(w, c) == {i \in 1..Len(w) : w[i] = c}

\* C1: for every letter c, the positions of check_guess(G, A) marked Correct
\* or Present that carry c are at most as many as the occurrences of c in A
\* (letters compared case-insensitively, as the function normalises both).
C1_MarkedAtMostOccurrences ==
    Evaluated =>
        LET A == Lower(evalAnswer)
        IN  \A c \in Letters :
                Cardinality(Marked(evalResult, c)) <= Cardinality(Occurrences(A, c))

\* A guess that repeats a letter more often than the answer holds it.
C1_Witness ==
    /\ Evaluated
    /\ \E c \in Letters :
          /\ Cardinality(Occurrences(Lower(evalGuess), c))
                > Cardinality(Occurrences(Lower(evalAnswer), c))
          /\ Cardinality(Occurrences(Lower(evalAnswer), c)) > 0
          /\ \E i \in 1..WordLen : evalResult[i] = LetterResult(c, ABSENT)
          /\ \E i \in 1..WordLen : evalResult[i] = LetterResult(c, PRESENT)

\* The two-pass reference, stated position by position.
ReferenceStatus(G, A, i) ==
    IF G[i] = A[i] THEN CORRECT
    ELSE IF Cardinality({j \in 1..(i - 1) : G[j] # A[j] /\ G[j] = G[i]})
              < Cardinality({k \in 1..WordLen : A[k] = G[i] /\ G[k] # A[k]})
         THEN PRESENT
         ELSE ABSENT

Speed == <<"s", "p", "e", "e", "d">>
Spade == <<"s", "p", "a", "d", "e">>

SpeedSpadeStatuses == [i \in 1..WordLen |-> check_guess(Speed, Spade)[i].status]

\* C2: check_guess(G, A) equals the two-pass reference: Correct iff the
\* letters agree at the position; otherwise Present iff fewer earlier
\* non-Correct positions carry the same letter than the answer has unmatched
\* occurrences of it; otherwise Absent.  'speed' against 'spade' gives
\* Correct, Correct, Present, Absent, Present.
C2_EqualsReference ==
    /\ Evaluated =>
          LET G == Lower(evalGuess)
              A == Lower(evalAnswer)
          IN  \A i \in 1..WordLen :
                  evalResult[i] = LetterResult(G[i], ReferenceStatus(G, A, i))
    /\ SpeedSpadeStatuses = <<CORRECT, CORRECT, PRESENT, ABSENT, PRESENT>>

\* All three statuses in one result, the guess typed in capitals.
C2_Witness ==
    /\ Evaluated
    /\ evalGuess # Lower(evalGuess)
    /\ \A s \in {CORRECT, PRESENT, ABSENT} : \E i \in 1..WordLen : evalResult[i].status = s

\* C3: check_guess(A, A) marks all five positions Correct.
C3_SameWordAllCorrect ==
    (Evaluated /\ Lower(evalGuess) = Lower(evalAnswer)) =>
        \A i \in 1..WordLen : evalResult[i] = LetterResult(Lower(evalAnswer)[i], CORRECT)

C3_Witness ==
    /\ Evaluated
    /\ Lower(evalGuess) = Lower(evalAnswer)
    /\ evalGuess # evalAnswer
    /\ Cardinality({evalResult[i].letter : i \in 1..WordLen}) > 1

====
